---- MODULE Spec2Model ----
(***************************************************************************)
(* A model of piplup's GPU resource lifecycle and frame synchronisation:   *)
(* the DeletionQueue, the DescriptorAllocator and the Renderer frame loop. *)
(*                                                                         *)
(*   SpecDQ  one DeletionQueue driven by arbitrary enqueue / flush calls   *)
(*   SpecDA  one DescriptorAllocator driven by allocate / reset calls      *)
(*   Spec    Renderer::display / Renderer::draw over MAX_FRAMES slots,     *)
(*           interleaved with the GPU completing submissions               *)
(***************************************************************************)
EXTENDS Integers, Sequences, FiniteSets, TLC

\* ------------------------------------------------------------------ bounds
MaxTasks == 4          \* tasks ever enqueued into the stand-alone queue
MaxFlushes == 3        \* flush calls on the stand-alone queue
MaxPools == 4          \* descriptor pools the device ever creates
MaxResets == 2         \* reset_descriptors calls on the stand-alone allocator

\* ------------------------------------------------------- program constants
MAX_FRAMES == 2        \* renderer.rs: const MAX_FRAMES
FRAME_MAX_SETS == 16   \* frame_data.rs: DescriptorAllocator::new(device, 16, ..)

VARIABLES
    \* --- stand-alone DeletionQueue (SpecDQ)
    queue,        \* DeletionQueue.queue: VecDeque<FType>
    executed,     \* test double: every task execution, in order
    enqueued,     \* ghost: every enqueue call, in order, with the flush count then
    flushes,      \* ghost: number of flush calls made
    dq_last,      \* ghost: the last call and what it did
    \* --- stand-alone DescriptorAllocator (SpecDA)
    allocator,    \* DescriptorAllocator {ready_pools, full_pools, sets_per_pool}
    pools,        \* the device's descriptor pools, by handle: capacity, sets in use, alive
    da_status,    \* "ok", or "panicked" once an unwrap / panic! ended the process
    da_hist,      \* ghost: the last call on the allocator and the state before it
    \* --- Renderer frame loop (Spec)
    frame_idx,    \* Renderer.frame_idx
    pc,           \* 0: outside display; k: draw is about to run DrawOrder[k]
    status,       \* "running", or "panicked" once an unwrap ended the process
    fence,        \* frame_data[i].render_fence is signaled
    gpu,          \* graphics queue: submissions not yet completed, oldest first
    cmd,          \* frame_data[i].command_buffer: the handles its commands reference
    frame_dq,     \* frame_data[i].frame_resources.per_frame_deletion_queue.queue
    frame_da,     \* frame_data[i].frame_resources.descriptor_allocator
    buffers,      \* live buffers of the MemoryAllocator
    next_buf,     \* next fresh buffer handle
    upload,       \* the create_buffer_with_mapped_memory call in progress: staging
                  \* and destination; the buffers egui's draw has made so far
    trace,        \* ghost: the steps of the current draw call, in order
    sem,          \* the semaphores of the frame slots: signaled or not
    displays,     \* ghost: display calls that returned Ok
    slot_state,   \* ghost: the state of each frame slot
    units,        \* every AllocationUnit the MemoryAllocator created, with what was
                  \* done to free it
    main_dq,      \* Renderer.main_deletion_queue and the number of times it was flushed
    freed,        \* ghost: every destroy_buffer call made, with the handle and the
                  \* allocation it was given
    frame_res,    \* frame_data[i].frame_resources: the bindings of the descriptor
                  \* layout builder, the pending writes of the descriptor writer,
                  \* the bindings of the last layout built, the sets updated
    mesh_buffers, \* EguiRenderer.mesh_buffers: the buffers of the meshes last built
    loaded_nodes, \* Renderer.loaded_nodes: the names of the glTF meshes loaded
    \* --- stand-alone MemoryAllocator calls (SpecMA)
    ma_calls,     \* ghost: number of calls made on the MemoryAllocator
    ma_last       \* ghost: the last call, its inputs, and what it did

maVars == <<ma_calls, ma_last>>
dqVars == <<queue, executed, enqueued, flushes, dq_last>>
daVars == <<allocator, pools, da_status, da_hist>>
loopVars == <<frame_idx, pc, status, fence, gpu, cmd, frame_dq, frame_da, buffers,
              next_buf, upload, trace, sem, displays, slot_state, units, main_dq, freed,
              frame_res, mesh_buffers, loaded_nodes>>
frameVars == <<loopVars, maVars>>
vars == <<queue, executed, enqueued, flushes, dq_last,
          allocator, pools, da_status, da_hist,
          frame_idx, pc, status, fence, gpu, cmd, frame_dq, frame_da, buffers,
          next_buf, upload, trace, sem, displays, slot_state, units, main_dq,
          freed, frame_res, mesh_buffers, loaded_nodes, ma_calls, ma_last>>

\* ------------------------------------------------------------------ helpers
Range(s) == {s[i] : i \in 1..Len(s)}

Last(s) == s[Len(s)]

Front(s) == SubSeq(s, 1, Len(s) - 1)

Contains(s, x) == \E i \in 1..Len(s) : s[i] = x

\* =========================================================================
\* DeletionQueue (components/deletion_queue.rs)
\* =========================================================================

\* FType: the three task variants.
FType == {"DEVICE", "MALLOC", "TASK"}

\* The handles DeletionQueue::flush passes to each variant.
HandlesFor(variant) ==
    CASE variant = "DEVICE" -> {"device"}
      [] variant = "MALLOC" -> {"memory_allocator"}
      [] variant = "TASK" -> {"device", "memory_allocator"}

\* descriptors.rs destroy_pools: destroy every ready pool, clear ready, destroy
\* every full pool, clear full.  `ps` is the device's pool table.
DestroyPoolsOn(ps, a) ==
    [p \in DOMAIN ps |->
        IF Contains(a.ready_pools, p) \/ Contains(a.full_pools, p)
        THEN [ps[p] EXCEPT !.alive = FALSE, !.destroyed = @ + 1]
        ELSE ps[p]]

destroy_pools(a) == [a EXCEPT !.ready_pools = <<>>, !.full_pools = <<>>]

\* One task run by flush.  world = [log, buffers, pools]: the test double's log,
\* the live buffers/images of the MemoryAllocator, the device's descriptor pools.
\*   probe                  a closure or task that only records that it ran
\*   DestroyImageTask       malloc.destroy_image(image, allocation)
\*   DestroyDescriptorPools allocator.borrow_mut().destroy_pools(device)
TaskRun(task, world) ==
    CASE task.op = "probe" ->
           [world EXCEPT !.log = Append(@, [id |-> task.id, variant |-> task.variant,
                                            given |-> HandlesFor(task.variant)])]
      [] task.op = "DestroyImageTask" ->
           [world EXCEPT !.buffers = @ \ {task.handle}]
      [] task.op = "DestroyDescriptorPools" ->
           [world EXCEPT !.pools = DestroyPoolsOn(@, task.allocator)]

\* DestroyBufferTask::execute (imported by renderer.rs, its definition is not
\* among the sources): malloc.destroy_buffer(buffer, allocation).
DestroyBufferTask_execute(task, world) ==
    [world EXCEPT !.buffers = @ \ {task.handle}]

Execute(task, world) ==
    IF task.op = "DestroyBufferTask" THEN DestroyBufferTask_execute(task, world)
    ELSE TaskRun(task, world)

\* mutant: enqueue runs the task at once and still queues it.
enqueue_eager(dq, func) ==
    [dq EXCEPT !.queue = Append(@, func), !.world = Execute(func, @)]

\* DeletionQueue::enqueue: push_back.
enqueue(dq, func) == [dq EXCEPT !.queue = Append(@, func)]

\* for i in self.queue.drain(..): front to back, each task run once.
RECURSIVE drain(_, _)
drain(q, world) ==
    IF q = <<>> THEN world
    ELSE drain(Tail(q), Execute(Head(q), world))

\* mutant: the queue is drained from the back (LIFO).
RECURSIVE drain_back(_, _)
drain_back(q, world) ==
    IF q = <<>> THEN world
    ELSE drain_back(Front(q), Execute(Last(q), world))

\* mutant: the queue is iterated but keeps its tasks.
flush_keep(dq) == [dq EXCEPT !.world = drain(dq.queue, dq.world)]

flush_lifo(dq) == [queue |-> <<>>, world |-> drain_back(dq.queue, dq.world)]

\* DeletionQueue::flush: drain(..) then clear().
flush(dq) == [queue |-> <<>>, world |-> drain(dq.queue, dq.world)]

EmptyWorld == [log |-> <<>>, buffers |-> {}, pools |-> <<>>]

\* ---- the stand-alone queue's calls
Tagged(log, n) == [i \in 1..Len(log) |-> [id |-> log[i].id, variant |-> log[i].variant,
                                           given |-> log[i].given, flush |-> n]]

DQEnqueue ==
    /\ Len(enqueued) < MaxTasks
    /\ \E v \in FType :
        LET id == Len(enqueued) + 1
            func == [variant |-> v, op |-> "probe", id |-> id]
            r == enqueue([queue |-> queue, world |-> EmptyWorld], func)
        IN /\ queue' = r.queue
           /\ executed' = executed \o Tagged(r.world.log, flushes)
           /\ enqueued' = Append(enqueued, [id |-> id, variant |-> v, flushes |-> flushes])
           /\ dq_last' = [op |-> "enqueue", pending |-> Len(queue), ran |-> Len(r.world.log)]
    /\ UNCHANGED <<flushes, daVars, frameVars>>

DQFlush ==
    /\ flushes < MaxFlushes
    /\ LET r == flush([queue |-> queue, world |-> EmptyWorld])
       IN /\ queue' = r.queue
          /\ executed' = executed \o Tagged(r.world.log, flushes + 1)
          /\ dq_last' = [op |-> "flush", pending |-> Len(queue), ran |-> Len(r.world.log)]
    /\ flushes' = flushes + 1
    /\ UNCHANGED <<enqueued, daVars, frameVars>>

DQInit ==
    /\ queue = <<>>
    /\ executed = <<>>
    /\ enqueued = <<>>
    /\ flushes = 0
    /\ dq_last = [op |-> "new", pending |-> 0, ran |-> 0]

\* =========================================================================
\* DescriptorAllocator (components/descriptors.rs)
\* =========================================================================

\* mutant: integer arithmetic, halving before tripling.
GrowSetsPerPool_HalfFirst(max_sets) == (max_sets \div 2) * 3

\* (max_sets as f32 * 1.5) as u32: exact for the small values used here.
GrowSetsPerPool(max_sets) == (max_sets * 3) \div 2

\* DescriptorAllocator::create_pool: a new pool of set_count sets on the device.
create_pool(ps, set_count) ==
    [pools |-> Append(ps, [cap |-> set_count, used |-> 0, alive |-> TRUE,
                           destroyed |-> 0, resets |-> 0]),
     pool |-> Len(ps) + 1]

\* DescriptorAllocator::new: one pool of max_sets, pushed on ready_pools.
new(ps, max_sets) ==
    LET c == create_pool(ps, max_sets)
    IN [allocator |-> [ready_pools |-> <<c.pool>>, full_pools |-> <<>>,
                       sets_per_pool |-> GrowSetsPerPool(max_sets)],
        pools |-> c.pools]

\* DescriptorAllocator::get_pool: pop the last ready pool, or create one of
\* sets_per_pool sets when ready_pools is empty.
get_pool(a, ps) ==
    IF a.ready_pools # <<>>
    THEN [allocator |-> [a EXCEPT !.ready_pools = Front(@)], pools |-> ps,
          pool |-> Last(a.ready_pools)]
    ELSE LET c == create_pool(ps, a.sets_per_pool)
         IN [allocator |-> a, pools |-> c.pools, pool |-> c.pool]

\* What vkAllocateDescriptorSets may answer for one set from a pool in this state.
\* A destroyed pool is undefined behaviour: any answer.
AllocResults == {"ok", "oopm", "frag", "other"}

\* create_pool's vkCreateDescriptorPool failed: its unwrap ends the process before
\* any vkAllocateDescriptorSets on that pool
NoPool == "no_pool"

\* what the first and the second attempt of one allocate call may meet
FirstResults == AllocResults \cup {NoPool}
SecondResults == AllocResults \cup {"none", NoPool}

DeviceMay(pool_state, o) ==
    IF ~pool_state.alive THEN o \in AllocResults
    ELSE IF pool_state.used < pool_state.cap THEN o \in {"ok", "frag", "other"}
    ELSE o \in {"oopm", "other"}

TakeSet(ps, p) == [ps EXCEPT ![p].used = @ + 1]

\* mutant: the exhausted pool is pushed on full_pools and also back on ready_pools.
MarkFull_AlsoReady(a, p) ==
    [a EXCEPT !.full_pools = Append(@, p), !.ready_pools = Append(@, p)]

\* if !self.full_pools.contains(&pool_to_use) { self.full_pools.push(pool_to_use) }
MarkFull(a, p) ==
    IF ~Contains(a.full_pools, p) THEN [a EXCEPT !.full_pools = Append(@, p)] ELSE a

\* mutant: a pool that served a set is pushed on full_pools at once.
allocate_speculative(a, ps, o1, o2) ==
    LET g1 == get_pool(a, ps)
        seen1 == [pool |-> g1.pool, state |-> g1.pools[g1.pool]]
    IN IF o1 = "ok"
       THEN [allocator |-> MarkFull(g1.allocator, g1.pool),
             pools |-> TakeSet(g1.pools, g1.pool),
             status |-> "ok", set |-> g1.pool, tried |-> <<seen1>>,
             create_called |-> TRUE]
       ELSE [allocator |-> g1.allocator, pools |-> g1.pools,
             status |-> "panicked", set |-> 0, tried |-> <<seen1>>,
             create_called |-> TRUE]

\* DescriptorAllocator::allocate.  o1, o2: the device's answers to the first and
\* (if made) the second vkAllocateDescriptorSets, or NoPool when the get_pool before
\* that attempt failed to create a pool.  The result carries the state the call
\* leaves, "ok" or "panicked", the set, the pools tried as the device saw them, and
\* whether vkCreateDescriptorPool was called where it is said to have failed.  The
\* pool a set was taken from is pushed on neither list.
allocate(a, ps, o1, o2) ==
    IF o1 = NoPool
    THEN [allocator |-> a, pools |-> ps, status |-> "panicked", set |-> 0,
          tried |-> <<>>, create_called |-> a.ready_pools = <<>>]
    ELSE
    LET g1 == get_pool(a, ps)
        seen1 == [pool |-> g1.pool, state |-> g1.pools[g1.pool]]
    IN IF o1 = "ok"
       THEN [allocator |-> g1.allocator, pools |-> TakeSet(g1.pools, g1.pool),
             status |-> "ok", set |-> g1.pool, tried |-> <<seen1>>,
             create_called |-> TRUE]
       ELSE IF o1 \in {"oopm", "frag"}
       THEN LET marked == MarkFull(g1.allocator, g1.pool)
                g2 == get_pool(marked, g1.pools)
                seen2 == [pool |-> g2.pool, state |-> g2.pools[g2.pool]]
            IN IF o2 = NoPool
               THEN [allocator |-> marked, pools |-> g1.pools,
                     status |-> "panicked", set |-> 0, tried |-> <<seen1>>,
                     create_called |-> marked.ready_pools = <<>>]
               ELSE IF o2 = "ok"
               THEN [allocator |-> g2.allocator, pools |-> TakeSet(g2.pools, g2.pool),
                     status |-> "ok", set |-> g2.pool, tried |-> <<seen1, seen2>>,
                     create_called |-> TRUE]
               ELSE [allocator |-> g2.allocator, pools |-> g2.pools,
                     status |-> "panicked", set |-> 0, tried |-> <<seen1, seen2>>,
                     create_called |-> TRUE]
       ELSE [allocator |-> g1.allocator, pools |-> g1.pools,
             status |-> "panicked", set |-> 0, tried |-> <<seen1>>,
             create_called |-> TRUE]

\* The answers o1, o2 are ones the device can give to this call.
Feasible(r, o1, o2) ==
    /\ r.create_called
    /\ IF r.tried = <<>> THEN o2 = "none"
       ELSE /\ DeviceMay(r.tried[1].state, o1)
            /\ IF Len(r.tried) = 2 THEN DeviceMay(r.tried[2].state, o2)
               ELSE IF o1 \in {"oopm", "frag"} THEN o2 = NoPool
               ELSE o2 = "none"

\* vkResetDescriptorPool on every pool of the list: its sets are returned.
ResetPoolsOn(ps, list) ==
    [p \in DOMAIN ps |->
        IF Contains(list, p) THEN [ps[p] EXCEPT !.used = 0, !.resets = @ + 1] ELSE ps[p]]

\* mutant: only full_pools is cleared.
clear_pools_full_only(a) == [a EXCEPT !.full_pools = <<>>]

\* mutant: nothing is cleared.
clear_pools_none(a) == a

\* DescriptorAllocator::clear_pools: both lists are cleared.
clear_pools(a) == [a EXCEPT !.full_pools = <<>>, !.ready_pools = <<>>]

\* DescriptorAllocator::reset_descriptors: reset every ready pool; reset every
\* full pool and push it on ready_pools; then clear_pools().
reset_descriptors(a, ps) ==
    LET merged == [a EXCEPT !.ready_pools = @ \o a.full_pools]
    IN [allocator |-> clear_pools(merged),
        pools |-> ResetPoolsOn(ResetPoolsOn(ps, a.ready_pools), a.full_pools)]

\* DescriptorLayoutBuilder::new and DescriptorWriter::new: nothing held
FrameResources_new == [bindings |-> 0, pending_writes |-> 0, layout |-> 0, updated |-> {}]

\* DescriptorLayoutBuilder::add_binding: push one binding
add_binding(fr) == [fr EXCEPT !.bindings = @ + 1]

\* DescriptorLayoutBuilder::build, vkCreateDescriptorSetLayout succeeding: the
\* layout over every binding held (a failure ends the process in build's unwrap)
build_layout(fr) == [fr EXCEPT !.layout = fr.bindings]

\* DescriptorLayoutBuilder::add_binding(..).build(..)
add_binding_build(fr) == build_layout(add_binding(fr))

\* DescriptorWriter::write_buffer: one more pending write
write_buffer(fr) == [fr EXCEPT !.pending_writes = @ + 1]

\* DescriptorWriter::write_image: one more pending write
write_image(fr) == [fr EXCEPT !.pending_writes = @ + 1]

\* mutant: the set is bound without update_set having been called on it
update_set_skipped(fr, set) == fr

\* DescriptorWriter::update_set: the pending writes are written to the set
update_set(fr, set) == [fr EXCEPT !.updated = @ \cup {set}]

\* descriptor_layout_builder.clear() and descriptor_writer.clear()
clear(fr) == [fr EXCEPT !.bindings = 0, !.pending_writes = 0]

\* DescriptorAllocator::write_buffer_descriptors: a fresh writer and layout
\* builder, one binding, the layout built, a set from allocate, the buffer write,
\* update_set.  The result is that of allocate with the layout and the set written;
\* with built false vkCreateDescriptorSetLayout failed and build's unwrap ended the
\* process before allocate was called.
write_buffer_descriptors(a, ps, built, o1, o2) ==
    LET layout == add_binding_build(FrameResources_new)
        r == allocate(a, ps, o1, o2)
        writer == IF r.status = "ok" THEN update_set(write_buffer(layout), r.set)
                  ELSE layout
    IN IF ~built
       THEN [allocator |-> a, pools |-> ps, status |-> "panicked", set |-> 0,
             tried |-> <<>>, create_called |-> TRUE, layout |-> 0, updated |-> {}]
       ELSE [allocator |-> r.allocator, pools |-> r.pools, status |-> r.status,
             set |-> r.set, tried |-> r.tried, create_called |-> r.create_called,
             layout |-> writer.layout, updated |-> writer.updated]

\* DescriptorAllocator::write_image_descriptors: the same with an image write
write_image_descriptors(a, ps, built, o1, o2) ==
    LET layout == add_binding_build(FrameResources_new)
        r == allocate(a, ps, o1, o2)
        writer == IF r.status = "ok" THEN update_set(write_image(layout), r.set)
                  ELSE layout
    IN IF ~built
       THEN [allocator |-> a, pools |-> ps, status |-> "panicked", set |-> 0,
             tried |-> <<>>, create_called |-> TRUE, layout |-> 0, updated |-> {}]
       ELSE [allocator |-> r.allocator, pools |-> r.pools, status |-> r.status,
             set |-> r.set, tried |-> r.tried, create_called |-> r.create_called,
             layout |-> writer.layout, updated |-> writer.updated]

\* ---- the stand-alone allocator's calls
MaxSets == 3           \* new(max_sets) with max_sets in 1..MaxSets
MaxDestroys == 2       \* direct destroy_pools calls

\* the max_sets values DescriptorAllocator::new is called with
NewMaxSets == (1..MaxSets) \cup {10}

Listed(a) == Range(a.ready_pools) \cup Range(a.full_pools)

\* some pool the allocator created still has room for a set
Headroom(ps) == \E p \in DOMAIN ps : ps[p].alive /\ ps[p].used < ps[p].cap

\* ghost: the attempts of one allocate call: pool, the device's answer, and whether
\* the pool had a free set
Attempts(r, o1, o2) ==
    [k \in 1..Len(r.tried) |->
        [pool |-> r.tried[k].pool, o |-> IF k = 1 THEN o1 ELSE o2,
         headroom |-> r.tried[k].state.alive /\ r.tried[k].state.used < r.tried[k].state.cap]]

\* ghost: how one allocate call ended: served at once, served on the retry, ended
\* by create_pool's unwrap, or ended by another unwrap or panic
AllocateResult(r, o1, o2) ==
    IF r.status = "ok" THEN (IF Len(r.tried) = 1 THEN "ok" ELSE "retried")
    ELSE IF NoPool \in {o1, o2} THEN NoPool
    ELSE "panicked"

Before(op, result) ==
    [op |-> op, result |-> result, prev |-> da_hist.op, prev_result |-> da_hist.result,
     ready |-> Range(allocator.ready_pools), full |-> Range(allocator.full_pools),
     created |-> Len(pools), headroom |-> Headroom(pools),
     resets |-> da_hist.resets, tried |-> <<>>,
     destroys |-> da_hist.destroys, destroyed |-> {}, by |-> op, updated |-> {}]

DAAllocate ==
    /\ da_status = "ok"
    /\ \E o1 \in FirstResults, o2 \in SecondResults :
        LET r == allocate(allocator, pools, o1, o2)
        IN /\ Feasible(r, o1, o2)
           /\ Len(r.pools) <= MaxPools
           /\ allocator' = r.allocator
           /\ pools' = r.pools
           /\ da_status' = r.status
           /\ da_hist' = [Before("allocate", AllocateResult(r, o1, o2))
                            EXCEPT !.tried = Attempts(r, o1, o2)]
    /\ UNCHANGED <<dqVars, frameVars>>

\* write_buffer_descriptors(..): the layout it builds, the allocate call it makes,
\* and the set it writes (no allocation is attempted when build failed)
DAWriteBufferDescriptors ==
    /\ da_status = "ok"
    /\ \E built \in BOOLEAN, o1 \in FirstResults, o2 \in SecondResults :
        LET r == write_buffer_descriptors(allocator, pools, built, o1, o2)
        IN /\ IF built THEN Feasible(r, o1, o2) ELSE o1 = "ok" /\ o2 = "none"
           /\ Len(r.pools) <= MaxPools
           /\ allocator' = r.allocator
           /\ pools' = r.pools
           /\ da_status' = r.status
           /\ da_hist' = [Before(IF built THEN "allocate" ELSE "build",
                                  AllocateResult(r, o1, o2))
                            EXCEPT !.tried = Attempts(r, o1, o2),
                                   !.by = "write_buffer_descriptors",
                                   !.updated = r.updated]
    /\ UNCHANGED <<dqVars, frameVars>>

\* write_image_descriptors(..): the layout it builds, the allocate call it makes,
\* and the set it writes (no allocation is attempted when build failed)
DAWriteImageDescriptors ==
    /\ da_status = "ok"
    /\ \E built \in BOOLEAN, o1 \in FirstResults, o2 \in SecondResults :
        LET r == write_image_descriptors(allocator, pools, built, o1, o2)
        IN /\ IF built THEN Feasible(r, o1, o2) ELSE o1 = "ok" /\ o2 = "none"
           /\ Len(r.pools) <= MaxPools
           /\ allocator' = r.allocator
           /\ pools' = r.pools
           /\ da_status' = r.status
           /\ da_hist' = [Before(IF built THEN "allocate" ELSE "build",
                                  AllocateResult(r, o1, o2))
                            EXCEPT !.tried = Attempts(r, o1, o2),
                                   !.by = "write_image_descriptors",
                                   !.updated = r.updated]
    /\ UNCHANGED <<dqVars, frameVars>>

DAReset ==
    /\ da_status = "ok"
    /\ da_hist.resets < MaxResets
    /\ LET r == reset_descriptors(allocator, pools)
       IN /\ allocator' = r.allocator
          /\ pools' = r.pools
    /\ da_hist' = [Before("reset_descriptors", "ok") EXCEPT !.resets = @ + 1]
    /\ UNCHANGED <<da_status, dqVars, frameVars>>

DAInit ==
    /\ \E max_sets \in NewMaxSets :
        LET n == new(<<>>, max_sets)
        IN /\ allocator = n.allocator
           /\ pools = n.pools
    /\ da_status = "ok"
    /\ da_hist = [op |-> "new", prev |-> "none", prev_result |-> "none", result |-> "ok",
                  ready |-> {}, full |-> {}, created |-> 0, headroom |-> FALSE,
                  resets |-> 0, tried |-> <<>>, destroys |-> 0, destroyed |-> {},
                  by |-> "new", updated |-> {}]

DAIdle ==
    /\ allocator = [ready_pools |-> <<>>, full_pools |-> <<>>, sets_per_pool |-> 0]
    /\ pools = <<>>
    /\ da_status = "ok"
    /\ da_hist = [op |-> "none"]

DQIdle ==
    /\ queue = <<>>
    /\ executed = <<>>
    /\ enqueued = <<>>
    /\ flushes = 0
    /\ dq_last = [op |-> "none"]

DANext ==
    \/ DAAllocate
    \/ DAWriteBufferDescriptors
    \/ DAWriteImageDescriptors
    \/ DAReset

\* =========================================================================
\* MemoryAllocator (components/memory_allocator.rs)
\* =========================================================================
MaxMeshes == 1         \* meshes egui tessellates in one draw call

\* An AllocationUnit as the allocator's bookkeeping sees it: its kind, the call
\* that created it, its buffer handle (0: not tracked by handle), the synchronous
\* destroy calls made on it and the DeletionTasks enqueued for it.
Unit(kind, by, handle) ==
    [kind |-> kind, by |-> by, handle |-> handle, sync |-> 0, tasks |-> 0]

\* destroy_buffer / destroy_image called on the unit with this handle
MarkDestroyed(us, h) ==
    [k \in DOMAIN us |-> IF us[k].handle = h THEN [us[k] EXCEPT !.sync = @ + 1] ELSE us[k]]

\* a DestroyBufferTask / DestroyImageTask for the unit was enqueued
MarkEnqueued(us, k) == [us EXCEPT ![k].tasks = @ + 1]

MarkEnqueuedHandle(us, h) ==
    [k \in DOMAIN us |-> IF us[k].handle = h THEN [us[k] EXCEPT !.tasks = @ + 1] ELSE us[k]]

\* AllocationUnit {unit, allocation}: what the MemoryAllocator returns for the
\* buffer or image with native handle h, the vk_mem allocation made for it
AllocationUnit(h) == [unit |-> h, allocation |-> <<"allocation", h>>]

\* MemoryAllocator::destroy_buffer(buffer, allocation), recorded
destroy_buffer(f, buffer, allocation) ==
    f \cup {[handle |-> buffer, allocation |-> allocation]}

\* the destroy_buffer / destroy_image calls the tasks of a flushed queue make
FreedBy(q) ==
    {[handle |-> q[k].handle, allocation |-> q[k].allocation] :
        k \in {j \in DOMAIN q : q[j].op \in {"DestroyBufferTask", "DestroyImageTask"}}}

\* mutant: the scene buffer's task is given the staging buffer's allocation
SceneDataTask_StagingAllocation(up) ==
    [variant |-> "TASK", op |-> "DestroyBufferTask",
     handle |-> AllocationUnit(up.dest).unit,
     allocation |-> AllocationUnit(up.staging).allocation]

\* draw_geom: DestroyBufferTask {buffer: *gpu_scene_data_buffer,
\*                               allocation: scene_data_allocation}
SceneDataTask(up) ==
    LET gpu_scene_data_buffer == AllocationUnit(up.dest)
    IN [variant |-> "TASK", op |-> "DestroyBufferTask",
        handle |-> gpu_scene_data_buffer.unit,
        allocation |-> gpu_scene_data_buffer.allocation]

\* MemoryAllocator::create_image
create_image(us, by) == Append(us, Unit("image", by, 0))

\* MemoryAllocator::staging_buffer
staging_buffer(us, by, h) == Append(us, Unit("staging", by, h))

\* MemoryAllocator::create_image_with_data: a staging buffer, the image, the copy;
\* the staging buffer is not destroyed.
create_image_with_data(us) ==
    create_image(staging_buffer(us, "create_image_with_data", 0), "create_image_with_data")

\* MemoryAllocator::create_egui_texture_image: a staging buffer, the image, the
\* copy; the staging buffer is not destroyed.
create_egui_texture_image(us) ==
    Append(staging_buffer(us, "create_egui_texture_image", 0),
           Unit("image", "create_egui_texture_image", 0))

\* MemoryAllocator::create_buffer_with_mapped_memory, as one call: the staging
\* buffer, the buffer (handle h), the blocking copy, destroy_buffer(staging).
create_buffer_with_mapped_memory(us, h) ==
    LET s == staging_buffer(us, "create_buffer_with_mapped_memory", 0)
        d == [s EXCEPT ![Len(s)].sync = @ + 1]
    IN Append(d, Unit("buffer", "create_buffer_with_mapped_memory", h))

\* n calls of create_image_with_data in a row
RECURSIVE ImagesWithData(_, _)
ImagesWithData(n, us) ==
    IF n = 0 THEN us ELSE ImagesWithData(n - 1, create_image_with_data(us))

\* MeshBuffers::new: a vertex buffer and an index buffer for the mesh, each made
\* by create_buffer_with_mapped_memory
MeshBuffers_new(us) ==
    create_buffer_with_mapped_memory(create_buffer_with_mapped_memory(us, 0), 0)

\* MeshAsset::load_gltf_meshes: MeshBuffers::new for each of the n primitives
RECURSIVE load_gltf_meshes(_, _)
load_gltf_meshes(n, us) ==
    IF n = 0 THEN us ELSE load_gltf_meshes(n - 1, MeshBuffers_new(us))

\* EguiRenderer::new: create_egui_texture_image for each of the n texture deltas
RECURSIVE EguiRenderer_new(_, _)
EguiRenderer_new(n, us) ==
    IF n = 0 THEN us ELSE EguiRenderer_new(n - 1, create_egui_texture_image(us))

MaxTextures == 2       \* textures egui asks EguiRenderer::new to create
GltfPrimitives == 1    \* primitives of each mesh of the glTF file

\* the meshes the glTF file may hold, by name
MeshNames == {"Suzanne", "Cube"}

\* Renderer::init, in the order of the code: draw_image and depth_image, each with
\* a DestroyImageTask in main_deletion_queue; the five images made by
\* create_image_with_data; the material_constants buffer; the buffers of the glTF
\* meshes; the textures of EguiRenderer::new.
InitUnits(meshes, textures) ==
    LET draw_image == create_image(<<>>, "create_image")
        a == MarkEnqueued(draw_image, Len(draw_image))
        depth_image == create_image(a, "create_image")
        b == MarkEnqueued(depth_image, Len(depth_image))
        c == ImagesWithData(5, b)
        material_constants == create_buffer_with_mapped_memory(c, 0)
        gltf_buffers == load_gltf_meshes(meshes * GltfPrimitives, material_constants)
    IN EguiRenderer_new(textures, gltf_buffers)

\* =========================================================================
\* MemoryAllocator calls, one at a time (components/memory_allocator.rs,
\* components/allocation_types.rs, components/command_buffers.rs)
\* =========================================================================
MaxCalls == 2      \* calls made on the MemoryAllocator
MaxLen == 3        \* elements of a payload slice
MaxExtent == 2     \* width and height of an image

WordBytes == 4     \* size of a u32, an f32, a Color32, an R8G8B8A8 texel

Words == {7, 9}                    \* payload elements
Garbage == {0, 7}                  \* what memory nobody wrote may hold
DeviceResults == {"SUCCESS", "ERROR_OUT_OF_DEVICE_MEMORY"}
Payloads == UNION {[1..n -> Words] : n \in 1..MaxLen}
Extents == [width : 1..MaxExtent, height : 1..MaxExtent, depth : {1}]

Texels(extent) == extent.depth * extent.width * extent.height

\* Unsigned integers as little-endian byte sequences, so that 32-bit and 64-bit
\* arithmetic can be computed exactly.
ToBytes(n, len) ==
    [k \in 1..len |-> IF k <= 4 THEN (n \div (256 ^ (k - 1))) % 256 ELSE 0]

Zext(a, len) == [k \in 1..len |-> IF k <= Len(a) THEN a[k] ELSE 0]

\* the value of a byte sequence that is below 2^31
FromBytes(a) ==
    a[1] + 256 * a[2] + 65536 * a[3] + 16777216 * a[4]

RECURSIVE ColSum(_, _, _, _)
ColSum(a, b, k, i) ==
    IF i > k THEN 0 ELSE a[i] * b[k + 1 - i] + ColSum(a, b, k, i + 1)

\* the low len bytes of a * b, from byte k on with the carry of the bytes below
RECURSIVE MulFrom(_, _, _, _, _)
MulFrom(a, b, len, k, carry) ==
    IF k > len THEN <<>>
    ELSE LET sum == ColSum(a, b, k, 1) + carry
         IN <<sum % 256>> \o MulFrom(a, b, len, k + 1, sum \div 256)

\* a * b on u64
mul_u64(a, b) == MulFrom(Zext(a, 8), Zext(b, 8), 8, 1, 0)

\* a * b on u32: the low 32 bits, and whether the product needed more
mul_u32(a, b) ==
    LET full == mul_u64(a, b)
    IN [value |-> SubSeq(full, 1, 4), overflow |-> \E k \in 5..8 : full[k] # 0]

\* what a build does on u32 overflow: overflow checks panic, otherwise it wraps
Builds == {"debug", "release"}

\* create_image_with_data:
\*   let data_size: u64 = (extent.depth * extent.width * extent.height * 4) as u64;
data_size(extent, build) ==
    LET dw == mul_u32(ToBytes(extent.depth, 4), ToBytes(extent.width, 4))
        dwh == mul_u32(dw.value, ToBytes(extent.height, 4))
        all == mul_u32(dwh.value, ToBytes(WordBytes, 4))
    IN IF build = "debug" /\ (dw.overflow \/ dwh.overflow \/ all.overflow)
       THEN [outcome |-> "panicked", size |-> Zext(<<>>, 8)]
       ELSE [outcome |-> "Ok", size |-> Zext(all.value, 8)]

\* width * height * depth * 4 without any width limit below 64 bits
ExactSize(extent) ==
    mul_u64(mul_u64(mul_u64(ToBytes(extent.depth, 4), ToBytes(extent.width, 4)),
                    ToBytes(extent.height, 4)),
            ToBytes(WordBytes, 4))

\* extents whose fields are u32 values, up to 2^16
Dims == {1, 2, 16, 1024, 32768, 65536}
BigExtents == [width : Dims, height : Dims, depth : {1, 2}]

\* allocate_single_buffer: self.allocator.create_buffer(..).unwrap(), once
allocate_single_buffer(buffer_size, dev) ==
    IF dev = "SUCCESS"
    THEN [outcome |-> "Ok", size |-> buffer_size, attempts |-> 1]
    ELSE [outcome |-> "panicked", size |-> 0, attempts |-> 1]

\* create_image: self.allocator.create_image(..).unwrap(), once
create_image_device(dev) ==
    IF dev = "SUCCESS"
    THEN [outcome |-> "Ok", attempts |-> 1]
    ELSE [outcome |-> "panicked", attempts |-> 1]

\* staging_buffer: the mapped memory of a buffer of buffer_size bytes after
\* copy_nonoverlapping(buffer_elements, data, buffer_elements.len()); the words
\* past the elements were never written
StagingMemory(buffer_size, buffer_elements, g) ==
    [k \in 1..(buffer_size \div WordBytes) |->
        IF k <= Len(buffer_elements) THEN buffer_elements[k] ELSE g]

\* single_time_command: a fresh primary command buffer, begun
single_time_command == <<>>

\* image_transition: cmd_pipeline_barrier with old_layout and new_layout
image_transition(cb, current_image_layout, new_image_layout) ==
    Append(cb, [cmd |-> "transition", old |-> current_image_layout,
                new |-> new_image_layout])

\* end_single_time_command: queue_submit, then queue_wait_idle
end_single_time_command(q, cb) ==
    [pending |-> <<>>, executed |-> q.executed \o q.pending \o cb]

\* VkBuffer::copy_buffer_to_image: its own one-shot command buffer with the copy,
\* submitted and waited for
copy_buffer_to_image(q) ==
    end_single_time_command(q,
        Append(single_time_command,
               [cmd |-> "copy", old |-> "TRANSFER_DST_OPTIMAL",
                new |-> "TRANSFER_DST_OPTIMAL"]))

\* VkBuffer::copy_buffer: its own one-shot command buffer with the copy
copy_buffer(q) ==
    end_single_time_command(q,
        Append(single_time_command, [cmd |-> "copy", old |-> "none", new |-> "none"]))

EmptyQueue == [pending |-> <<>>, executed |-> <<>>]

\* create_image_with_data: both transitions are recorded into cmd_buffer, which is
\* submitted last; copy_buffer_to_image submits its own buffer in between
create_image_with_data_queue ==
    LET cmd_buffer == single_time_command
        a == image_transition(cmd_buffer, "UNDEFINED", "TRANSFER_DST_OPTIMAL")
        q == copy_buffer_to_image(EmptyQueue)
        b == image_transition(a, "TRANSFER_DST_OPTIMAL", "SHADER_READ_ONLY_OPTIMAL")
    IN end_single_time_command(q, b)

\* create_egui_texture_image: three one-shot command buffers, each submitted and
\* waited for in turn
create_egui_texture_image_queue ==
    LET a == image_transition(single_time_command, "UNDEFINED", "TRANSFER_DST_OPTIMAL")
        q1 == end_single_time_command(EmptyQueue, a)
        q2 == copy_buffer_to_image(q1)
        b == image_transition(single_time_command, "TRANSFER_DST_OPTIMAL",
                              "SHADER_READ_ONLY_OPTIMAL")
    IN end_single_time_command(q2, b)

\* The device executing one command on the destination [layout, content, valid]:
\* a copy writes n words of the staging memory; a transition from UNDEFINED may
\* discard the contents; a command naming a layout the image is not in is invalid.
GpuExecute(dst, c, mem, n, g, discard) ==
    IF c.cmd = "copy"
    THEN [dst EXCEPT !.content = [k \in 1..n |-> IF k <= Len(mem) THEN mem[k] ELSE g],
                     !.valid = @ /\ dst.layout = c.old]
    ELSE [dst EXCEPT !.layout = c.new,
                     !.content = IF c.old = "UNDEFINED" /\ discard
                                 THEN [k \in DOMAIN @ |-> g] ELSE @,
                     !.valid = @ /\ c.old \in {"UNDEFINED", dst.layout}]

RECURSIVE GpuRun(_, _, _, _, _, _)
GpuRun(cmds, dst, mem, n, g, discard) ==
    IF cmds = <<>> THEN dst
    ELSE GpuRun(Tail(cmds), GpuExecute(dst, Head(cmds), mem, n, g, discard),
                mem, n, g, discard)

NewImage == [layout |-> "UNDEFINED", content |-> <<>>, valid |-> TRUE]
NewBuffer == [layout |-> "none", content |-> <<>>, valid |-> TRUE]

\* what a call did, as its caller and the device see it
Call(op, device, outcome, payload, staging_size, written, copied, dst, q) ==
    [op |-> op, device |-> device, outcome |-> outcome, attempts |-> 1,
     payload |-> payload, staging_size |-> staging_size, written |-> written,
     copied |-> copied, dest |-> dst.content, layout |-> dst.layout,
     valid |-> dst.valid, executed |-> q.executed, pending |-> q.pending]

Panicked(op, device, payload) ==
    Call(op, device, "panicked", payload, 0, 0, 0, NewBuffer, EmptyQueue)

\* the unwrap on the second device call: the staging buffer was created and
\* written before it, and stays allocated
PanickedAfterStaging(op, device, payload, staging_size, written) ==
    Call(op, device, "panicked", payload, staging_size, written, 0, NewBuffer,
         EmptyQueue)

\* create_image_with_data(data, extent, ..)
CreateImageWithData(data, extent, dev1, dev2, g, discard) ==
    LET op == "create_image_with_data"
        bytes == FromBytes(data_size(extent, "release").size)
        staging == allocate_single_buffer(bytes, dev1)
        image == create_image_device(dev2)
        mem == StagingMemory(bytes, <<data>>, g)
        q == create_image_with_data_queue
    IN IF staging.outcome # "Ok" THEN Panicked(op, dev1, <<data>>)
       ELSE IF image.outcome # "Ok"
       THEN PanickedAfterStaging(op, dev2, <<data>>, staging.size, WordBytes)
       ELSE Call(op, "SUCCESS", "Ok", <<data>>, staging.size, WordBytes,
                 Texels(extent) * WordBytes,
                 GpuRun(q.executed, NewImage, mem, Texels(extent), g, discard), q)

\* create_egui_texture_image(command_pool, image_data, ..): pixels is the image's
\* width * height Color32 values
CreateEguiTextureImage(pixels, dev1, dev2, g, discard) ==
    LET op == "create_egui_texture_image"
        size == WordBytes * Len(pixels)
        staging == allocate_single_buffer(size, dev1)
        image == create_image_device(dev2)
        mem == StagingMemory(size, pixels, g)
        q == create_egui_texture_image_queue
    IN IF staging.outcome # "Ok" THEN Panicked(op, dev1, pixels)
       ELSE IF image.outcome # "Ok"
       THEN PanickedAfterStaging(op, dev2, pixels, staging.size, WordBytes * Len(pixels))
       ELSE Call(op, "SUCCESS", "Ok", pixels, staging.size, WordBytes * Len(pixels),
                 WordBytes * Len(pixels),
                 GpuRun(q.executed, NewImage, mem, Len(pixels), g, discard), q)

\* create_buffer_with_mapped_memory(buffer_elements, ..)
CreateBufferWithMappedMemory(buffer_elements, dev1, dev2, g) ==
    LET op == "create_buffer_with_mapped_memory"
        buffer_size == WordBytes * Len(buffer_elements)
        staging == allocate_single_buffer(buffer_size, dev1)
        buffer == allocate_single_buffer(buffer_size, dev2)
        mem == StagingMemory(buffer_size, buffer_elements, g)
        q == copy_buffer(EmptyQueue)
    IN IF staging.outcome # "Ok" THEN Panicked(op, dev1, buffer_elements)
       ELSE IF buffer.outcome # "Ok"
       THEN PanickedAfterStaging(op, dev2, buffer_elements, staging.size,
                                 WordBytes * Len(buffer_elements))
       ELSE Call(op, "SUCCESS", "Ok", buffer_elements, staging.size,
                 WordBytes * Len(buffer_elements), buffer_size,
                 GpuRun(q.executed, NewBuffer, mem, buffer_size \div WordBytes, g, FALSE),
                 q)

\* the process is alive and may make another call
MAReady == ma_last.outcome # "panicked" /\ ma_calls < MaxCalls

MAAllocateSingleBuffer ==
    /\ MAReady
    /\ \E n \in 1..MaxLen, dev \in DeviceResults :
        LET r == allocate_single_buffer(WordBytes * n, dev)
        IN ma_last' = [Call("allocate_single_buffer", dev, r.outcome, <<>>, 0, 0, 0,
                            NewBuffer, EmptyQueue) EXCEPT !.attempts = r.attempts]
    /\ ma_calls' = ma_calls + 1
    /\ UNCHANGED <<dqVars, daVars, loopVars>>

MACreateImage ==
    /\ MAReady
    /\ \E dev \in DeviceResults :
        LET r == create_image_device(dev)
        IN ma_last' = [Call("create_image", dev, r.outcome, <<>>, 0, 0, 0,
                            NewImage, EmptyQueue) EXCEPT !.attempts = r.attempts]
    /\ ma_calls' = ma_calls + 1
    /\ UNCHANGED <<dqVars, daVars, loopVars>>

\* the size computation of create_image_with_data, for extents of any size
MADataSize ==
    /\ MAReady
    /\ \E extent \in BigExtents, build \in Builds :
        LET r == data_size(extent, build)
        IN ma_last' = [op |-> "data_size", outcome |-> r.outcome, extent |-> extent,
                       build |-> build, size |-> r.size, exact |-> ExactSize(extent)]
    /\ ma_calls' = ma_calls + 1
    /\ UNCHANGED <<dqVars, daVars, loopVars>>

MACreateImageWithData ==
    /\ MAReady
    /\ \E data \in Words, extent \in Extents, dev1 \in DeviceResults,
          dev2 \in DeviceResults, g \in Garbage, discard \in BOOLEAN :
        ma_last' = CreateImageWithData(data, extent, dev1, dev2, g, discard)
    /\ ma_calls' = ma_calls + 1
    /\ UNCHANGED <<dqVars, daVars, loopVars>>

MACreateEguiTextureImage ==
    /\ MAReady
    /\ \E pixels \in Payloads, dev1 \in DeviceResults, dev2 \in DeviceResults,
          g \in Garbage, discard \in BOOLEAN :
        ma_last' = CreateEguiTextureImage(pixels, dev1, dev2, g, discard)
    /\ ma_calls' = ma_calls + 1
    /\ UNCHANGED <<dqVars, daVars, loopVars>>

MACreateBufferWithMappedMemory ==
    /\ MAReady
    /\ \E buffer_elements \in Payloads, dev1 \in DeviceResults, dev2 \in DeviceResults,
          g \in Garbage :
        ma_last' = CreateBufferWithMappedMemory(buffer_elements, dev1, dev2, g)
    /\ ma_calls' = ma_calls + 1
    /\ UNCHANGED <<dqVars, daVars, loopVars>>

MAIdle ==
    /\ ma_calls = 0
    /\ ma_last = [op |-> "none", outcome |-> "none"]

MANext ==
    \/ MAAllocateSingleBuffer
    \/ MACreateImage
    \/ MADataSize
    \/ MACreateImageWithData
    \/ MACreateEguiTextureImage
    \/ MACreateBufferWithMappedMemory

\* =========================================================================
\* Renderer frame loop (renderer.rs, components/frame_data.rs)
\* =========================================================================
MaxFramePools == 6     \* descriptor pools the device creates during the frame loop

Slots == 0..(MAX_FRAMES - 1)

\* The steps of Renderer::draw, in the order of the code.
\* mutant: the fence wait comes only just before the submission.
DrawOrder_WaitLate ==
    <<"update_scene", "reset_fences", "acquire_next_image", "reset_command_buffer", "flush",
      "record_command_buffer", "egui_draw", "wait_for_fences", "submit_queue",
      "present_queue", "reset_descriptors">>

\* mutant: the per-frame queue is flushed after the slot's submission.
DrawOrder_FlushAfterSubmit ==
    <<"update_scene", "wait_for_fences", "reset_fences", "acquire_next_image", "reset_command_buffer",
      "record_command_buffer", "egui_draw", "submit_queue", "flush",
      "present_queue", "reset_descriptors">>

\* Renderer::draw
DrawOrder ==
    <<"update_scene", "wait_for_fences", "reset_fences", "acquire_next_image", "reset_command_buffer",
      "flush", "record_command_buffer", "egui_draw", "submit_queue",
      "present_queue", "reset_descriptors">>

\* steps whose failure draw returns with `?`, and steps whose failure is unwrapped
ErrSteps == {"wait_for_fences", "reset_fences", "reset_command_buffer", "egui_draw"}

PanicSteps == {"acquire_next_image", "record_command_buffer", "egui_draw",
               "submit_queue", "present_queue"}

\* the nodes update_scene looks up in loaded_nodes, each with .unwrap()
SceneNodes == {"Suzanne", "Cube"}

At(step) == status = "running" /\ pc > 0 /\ DrawOrder[pc] = step

\* slot i's last submission has not completed on the GPU
Pending(i) == \E k \in 1..Len(gpu) : gpu[k].slot = i

Event(step, n) ==
    [ev |-> step, slot |-> frame_idx, pending |-> Pending(frame_idx), n |-> n,
     err |-> "none"]

\* ghost: the draw call ended at step DrawOrder[pc] with this error, returned
\* ("returned_err") or unwrapped ("panicked")
Failure(how, err) ==
    [ev |-> how, slot |-> frame_idx, pending |-> Pending(frame_idx), n |-> pc, err |-> err]

\* the errors a step's Vulkan call can report
StepErrors(step) ==
    IF step \in {"acquire_next_image", "present_queue"}
    THEN {"ERROR_OUT_OF_DATE_KHR", "ERROR_DEVICE_LOST"}
    ELSE IF step = "wait_for_fences" THEN {"TIMEOUT", "ERROR_DEVICE_LOST"}
    ELSE IF step \in {"record_command_buffer", "egui_draw"}
    THEN {"ERROR_DEVICE_LOST", "ERROR_OUT_OF_DEVICE_MEMORY"}
    ELSE {"ERROR_DEVICE_LOST"}

\* mutant: queue_wait_idle returns at once.
queue_wait_idle_skip(g) == TRUE

\* vkQueueWaitIdle returns once nothing is left on the queue
queue_wait_idle(g) == g = <<>>

\* The spec's state of a frame slot after a step of draw on it.
SlotStateAfter(step, st) ==
    CASE step = "wait_for_fences" -> "Idle"
      [] step = "acquire_next_image" -> "Acquiring"
      [] step \in {"reset_command_buffer", "record_command_buffer", "egui_draw"} -> "Recording"
      [] step = "submit_queue" -> "Submitted"
      [] OTHER -> st

\* mutant: the index is never advanced.
NextFrameIdx_Stuck(i) == i

\* display: self.frame_idx = (self.frame_idx + 1) % MAX_FRAMES
NextFrameIdx(i) == (i + 1) % MAX_FRAMES

\* frame_data[i].swapchain_semaphore[0], frame_data[i].render_semaphore[0]
swapchain_semaphore(i) == <<"swapchain", i>>

render_semaphore(i) == <<"render", i>>

Semaphores == {swapchain_semaphore(i) : i \in Slots} \cup {render_semaphore(i) : i \in Slots}

\* markers of the queue operations that are not a frame's submission
UPLOAD == MAX_FRAMES

PRESENT == MAX_FRAMES + 1

NO_FENCE == MAX_FRAMES

\* mutant: every slot submits with slot 0's semaphores.
SubmitInfo_Slot0Semaphores(i, c) ==
    [slot |-> i, bufs |-> c.bufs \cup c.ui_bufs, sets |-> c.sets,
     wait |-> {swapchain_semaphore(0)}, signal |-> {render_semaphore(0)}, fence |-> i]

\* submit_queue: wait on the slot's swapchain_semaphore, signal its
\* render_semaphore, and queue_submit with its render_fence[0].
SubmitInfo(i, c) ==
    [slot |-> i, bufs |-> c.bufs \cup c.ui_bufs, sets |-> c.sets,
     wait |-> {swapchain_semaphore(i)}, signal |-> {render_semaphore(i)}, fence |-> i]

\* present_queue(queue, &frame_data[frame_idx].render_semaphore, ..)
PresentInfo(i) ==
    [slot |-> PRESENT, bufs |-> {}, sets |-> {},
     wait |-> {render_semaphore(i)}, signal |-> {}, fence |-> NO_FENCE]

\* end_single_time_command: queue_submit of the one-shot buffer with Fence::null()
UploadInfo(bs) ==
    [slot |-> UPLOAD, bufs |-> bs, sets |-> {}, wait |-> {}, signal |-> {},
     fence |-> NO_FENCE]

\* The step is done: draw goes on, or returns Ok and display advances frame_idx.
Advance(step, n) ==
    /\ trace' = Append(trace, Event(step, n))
    /\ slot_state' = [slot_state EXCEPT ![frame_idx] = SlotStateAfter(step, @)]
    /\ IF pc = Len(DrawOrder)
       THEN /\ pc' = 0
            /\ frame_idx' = NextFrameIdx(frame_idx)
            /\ displays' = displays + 1
       ELSE /\ pc' = pc + 1
            /\ frame_idx' = frame_idx
            /\ displays' = displays

\* FrameData::new: the slot's DescriptorAllocator with one pool of 16 sets, and a
\* DeletionQueue that already holds DestroyDescriptorPools over a clone of it.
FrameData_new(ps) ==
    LET n == new(ps, FRAME_MAX_SETS)
        task == [variant |-> "TASK", op |-> "DestroyDescriptorPools",
                 allocator |-> n.allocator]
    IN [descriptor_allocator |-> n.allocator,
        deletion_queue |-> enqueue([queue |-> <<>>, world |-> EmptyWorld], task).queue,
        pools |-> n.pools]

\* Renderer::init: for _i in 0..MAX_FRAMES { frame_data.push(FrameData::new(..)) }
RECURSIVE InitFrames(_, _)
InitFrames(n, acc) ==
    IF n = MAX_FRAMES THEN acc
    ELSE LET f == FrameData_new(acc.pools)
         IN InitFrames(n + 1,
                [da |-> Append(acc.da, f.descriptor_allocator),
                 dq |-> Append(acc.dq, f.deletion_queue),
                 pools |-> f.pools])

\* Renderer::init: main_deletion_queue gets a DestroyImageTask and a closure
\* destroying the image view, for draw_image and for depth_image.
InitMainQueue ==
    LET t(img) == [variant |-> "TASK", op |-> "DestroyImageTask",
                   handle |-> AllocationUnit(img).unit,
                   allocation |-> AllocationUnit(img).allocation]
        v(img) == [variant |-> "DEVICE", op |-> "destroy_image_view", image |-> img]
        q0 == [queue |-> <<>>, world |-> EmptyWorld]
        q1 == enqueue(enqueue(q0, t("draw_image")), v("draw_image"))
    IN enqueue(enqueue(q1, t("depth_image")), v("depth_image")).queue

FrameInit ==
    LET f == InitFrames(0, [da |-> <<>>, dq |-> <<>>, pools |-> <<>>])
    IN /\ \E meshes \in SUBSET MeshNames, textures \in 1..MaxTextures :
            /\ loaded_nodes = meshes
            /\ units = InitUnits(Cardinality(meshes), textures)
       /\ mesh_buffers = <<>>
       /\ frame_idx = 0
       /\ pc = 0
       /\ status = "running"
       /\ fence = [i \in Slots |-> TRUE]
       /\ gpu = <<>>
       /\ cmd = [i \in Slots |-> [bufs |-> {}, sets |-> {}, ui |-> "initial", ui_bufs |-> {}]]
       /\ frame_dq = [i \in Slots |-> f.dq[i + 1]]
       /\ frame_da = [i \in Slots |-> f.da[i + 1]]
       /\ pools = f.pools
       /\ buffers = {}
       /\ next_buf = 1
       /\ upload = [active |-> FALSE, staging |-> 0, dest |-> 0, made |-> <<>>]
       /\ trace = <<>>
       /\ sem = [x \in Semaphores |-> FALSE]
       /\ displays = 0
       /\ slot_state = [i \in Slots |-> "Idle"]
       /\ main_dq = [queue |-> InitMainQueue, flushes |-> 0]
       /\ freed = {}
       /\ frame_res = [i \in Slots |-> FrameResources_new]

\* display: self.draw(self.frame_idx, window)
Display ==
    /\ UNCHANGED <<dqVars, maVars, allocator, da_status, da_hist, sem, displays, slot_state,
                 units, main_dq, mesh_buffers, loaded_nodes, freed,
                 frame_res>>
    /\ status = "running"
    /\ pc = 0
    /\ pc' = 1
    /\ trace' = <<>>
    /\ UNCHANGED <<frame_idx, status, fence, gpu, cmd, frame_dq, frame_da, pools,
                   buffers, next_buf, upload>>

\* update_scene: loaded_nodes.get("Suzanne").unwrap() and .get("Cube").unwrap()
DrawUpdateScene ==
    /\ UNCHANGED <<dqVars, maVars, allocator, da_status, da_hist, sem, units, main_dq, mesh_buffers, loaded_nodes, freed,
                 frame_res>>
    /\ At("update_scene")
    /\ IF SceneNodes \subseteq loaded_nodes
       THEN /\ status' = status
            /\ Advance("update_scene", 0)
       ELSE /\ status' = "panicked"
            /\ trace' = Append(trace, Failure("panicked", "unwrap on None"))
            /\ UNCHANGED <<pc, frame_idx, displays, slot_state>>
    /\ UNCHANGED <<fence, gpu, cmd, frame_dq, frame_da, pools, buffers, next_buf, upload>>

\* wait_for_fences(render_fence, true, u64::MAX) returns once the fence is signaled
DrawWait ==
    /\ UNCHANGED <<dqVars, maVars, allocator, da_status, da_hist, sem, units, main_dq, mesh_buffers, loaded_nodes, freed,
                 frame_res>>
    /\ At("wait_for_fences")
    /\ fence[frame_idx]
    /\ Advance("wait_for_fences", 0)
    /\ UNCHANGED <<status, fence, gpu, cmd, frame_dq, frame_da, pools, buffers,
                   next_buf, upload>>

DrawResetFences ==
    /\ UNCHANGED <<dqVars, maVars, allocator, da_status, da_hist, sem, units, main_dq, mesh_buffers, loaded_nodes, freed,
                 frame_res>>
    /\ At("reset_fences")
    /\ fence' = [fence EXCEPT ![frame_idx] = FALSE]
    /\ Advance("reset_fences", 0)
    /\ UNCHANGED <<status, gpu, cmd, frame_dq, frame_da, pools, buffers, next_buf, upload>>

DrawAcquire ==
    /\ UNCHANGED <<dqVars, maVars, allocator, da_status, da_hist, units, main_dq, mesh_buffers, loaded_nodes, freed,
                 frame_res>>
    /\ At("acquire_next_image")
    /\ sem' = [sem EXCEPT ![swapchain_semaphore(frame_idx)] = TRUE]
    /\ \E suboptimal \in BOOLEAN : Advance("acquire_next_image", IF suboptimal THEN 1 ELSE 0)
    /\ UNCHANGED <<status, fence, gpu, cmd, frame_dq, frame_da, pools, buffers,
                   next_buf, upload>>

DrawResetCmd ==
    /\ UNCHANGED <<dqVars, maVars, allocator, da_status, da_hist, sem, units, main_dq, mesh_buffers, loaded_nodes, freed,
                 frame_res>>
    /\ At("reset_command_buffer")
    /\ cmd' = [cmd EXCEPT ![frame_idx].bufs = {}, ![frame_idx].sets = {}]
    /\ Advance("reset_command_buffer", 0)
    /\ UNCHANGED <<status, fence, gpu, frame_dq, frame_da, pools, buffers, next_buf, upload>>

\* frame_data[frame_idx].frame_resources.per_frame_deletion_queue.flush()
DrawFlush ==
    /\ UNCHANGED <<dqVars, maVars, allocator, da_status, da_hist, sem, units, main_dq, mesh_buffers, loaded_nodes,
                 frame_res>>
    /\ At("flush")
    /\ LET r == flush([queue |-> frame_dq[frame_idx],
                       world |-> [log |-> <<>>, buffers |-> buffers, pools |-> pools]])
       IN /\ frame_dq' = [frame_dq EXCEPT ![frame_idx] = r.queue]
          /\ buffers' = r.world.buffers
          /\ pools' = r.world.pools
    /\ freed' = freed \cup FreedBy(frame_dq[frame_idx])
    /\ Advance("flush", Len(frame_dq[frame_idx]))
    /\ UNCHANGED <<status, fence, gpu, cmd, frame_da, next_buf, upload>>

\* the calls of create_buffer_with_mapped_memory that can fail after it has
\* created a buffer: allocate_single_buffer for the destination, and copy_buffer's
\* single_time_command / end_command_buffer / queue_submit; each is unwrapped
UploadFailures == {"none", "destination", "submit"}

\* create_buffer_with_mapped_memory up to copy_buffer's queue_submit, with fresh
\* handles from h on: the staging buffer, the destination unless its allocation
\* failed, and the one-shot copy put on the queue unless a call before failed.
create_buffer_started(h, fail) ==
    [staging |-> h,
     dest |-> IF fail = "destination" THEN 0 ELSE h + 1,
     created |-> IF fail = "destination" THEN {h} ELSE {h, h + 1},
     submitted |-> fail = "none",
     err |-> CASE fail = "destination" -> "ERROR_OUT_OF_DEVICE_MEMORY"
               [] fail = "submit" -> "ERROR_DEVICE_LOST"
               [] OTHER -> "none"]

\* the units that call has created
UnitsStarted(us, u) ==
    LET s == staging_buffer(us, "create_buffer_with_mapped_memory", u.staging)
    IN IF u.dest = 0 THEN s
       ELSE Append(s, Unit("buffer", "create_buffer_with_mapped_memory", u.dest))

\* draw_geom, create_buffer_with_mapped_memory up to copy_buffer's queue_submit:
\* the staging and the destination buffer exist, the one-shot copy is on the queue;
\* or one of the calls failed and its unwrap ended the process.
DrawGeomUpload ==
    /\ UNCHANGED <<dqVars, maVars, allocator, da_status, da_hist, sem, displays, slot_state, main_dq, mesh_buffers, loaded_nodes, freed,
                 frame_res>>
    /\ At("record_command_buffer")
    /\ ~upload.active
    /\ \E fail \in UploadFailures :
        LET u == create_buffer_started(next_buf, fail)
        IN /\ upload' = [upload EXCEPT !.active = TRUE, !.staging = u.staging,
                                       !.dest = u.dest]
           /\ next_buf' = next_buf + Cardinality(u.created)
           /\ buffers' = buffers \cup u.created
           /\ gpu' = IF u.submitted THEN Append(gpu, UploadInfo(u.created)) ELSE gpu
           /\ units' = UnitsStarted(units, u)
           /\ IF fail = "none"
              THEN /\ status' = status
                   /\ trace' = trace
              ELSE /\ status' = "panicked"
                   /\ trace' = Append(trace, Failure("panicked", u.err))
    /\ UNCHANGED <<frame_idx, pc, fence, cmd, frame_dq, frame_da, pools>>

\* draw_geom from queue_wait_idle on: the staging buffer is destroyed, the scene
\* buffer's DestroyBufferTask is enqueued, the binding is added and the layout built
\* (built false: vkCreateDescriptorSetLayout failed and build's unwrap ended the
\* process), a descriptor set is allocated (allocate may end the process in
\* create_pool or on the device's answer), written and bound; then
\* record_command_buffer ends the command buffer, and draw unwraps its result.
DrawGeomRecord ==
    /\ UNCHANGED <<dqVars, maVars, allocator, da_status, da_hist, sem, main_dq, mesh_buffers, loaded_nodes>>
    /\ At("record_command_buffer")
    /\ upload.active
    /\ queue_wait_idle(gpu)
    /\ \E built \in BOOLEAN, o1 \in FirstResults, o2 \in SecondResults, ended \in BOOLEAN :
        LET i == frame_idx
            task == SceneDataTask(upload)
            q == enqueue([queue |-> frame_dq[i],
                          world |-> [log |-> <<>>, buffers |-> buffers \ {upload.staging},
                                     pools |-> pools]], task)
            r == allocate(frame_da[i], q.world.pools, o1, o2)
        IN /\ IF built THEN Feasible(r, o1, o2) ELSE o1 = "ok" /\ o2 = "none"
           /\ Len(r.pools) <= MaxFramePools
           /\ (~built \/ r.status # "ok") => ended
           /\ frame_dq' = [frame_dq EXCEPT ![i] = q.queue]
           /\ buffers' = q.world.buffers
           /\ frame_da' = [frame_da EXCEPT ![i] = IF built THEN r.allocator ELSE @]
           /\ pools' = IF built THEN r.pools ELSE q.world.pools
           /\ IF ~built
              THEN /\ status' = "panicked"
                   /\ frame_res' = [frame_res EXCEPT ![i] = add_binding(@)]
                   /\ trace' = Append(trace, Failure("panicked", "ERROR_OUT_OF_HOST_MEMORY"))
                   /\ UNCHANGED <<cmd, pc, frame_idx, displays, slot_state>>
              ELSE IF r.status = "ok"
              THEN /\ cmd' = [cmd EXCEPT ![i].bufs = {upload.dest}, ![i].sets = {r.set}]
                   /\ frame_res' = [frame_res EXCEPT
                         ![i] = update_set(write_buffer(add_binding_build(@)), r.set)]
                   /\ IF ended
                      THEN /\ status' = status
                           /\ Advance("record_command_buffer", 0)
                      ELSE /\ status' = "panicked"
                           /\ trace' = Append(trace, Failure("panicked", "ERROR_DEVICE_LOST"))
                           /\ UNCHANGED <<pc, frame_idx, displays, slot_state>>
              ELSE /\ status' = "panicked"
                   /\ frame_res' = [frame_res EXCEPT ![i] = add_binding_build(@)]
                   /\ trace' = Append(trace, Failure("panicked",
                                      IF NoPool \in {o1, o2}
                                      THEN "ERROR_OUT_OF_DEVICE_MEMORY"
                                      ELSE "descriptor allocation"))
                   /\ UNCHANGED <<cmd, pc, frame_idx, displays, slot_state>>
    /\ upload' = [upload EXCEPT !.active = FALSE, !.staging = 0, !.dest = 0]
    /\ units' = MarkEnqueuedHandle(MarkDestroyed(units, upload.staging), upload.dest)
    /\ LET staging == AllocationUnit(upload.staging)
       IN freed' = destroy_buffer(freed, staging.unit, staging.allocation)
    /\ UNCHANGED <<fence, gpu, next_buf>>

\* egui_renderer.draw, MeshBuffers::new for the next tessellated mesh: the next
\* create_buffer_with_mapped_memory (vertex, then index buffer) up to copy_buffer's
\* queue_submit; or one of its calls failed and its unwrap ended the process.
DrawEguiUpload ==
    /\ UNCHANGED <<dqVars, maVars, allocator, da_status, da_hist, sem, displays, slot_state, main_dq, mesh_buffers, loaded_nodes, freed,
                 frame_res>>
    /\ At("egui_draw")
    /\ ~upload.active
    /\ Len(upload.made) < 2 * MaxMeshes
    /\ \E fail \in UploadFailures :
        LET u == create_buffer_started(next_buf, fail)
        IN /\ upload' = [upload EXCEPT !.active = TRUE, !.staging = u.staging,
                                       !.dest = u.dest]
           /\ next_buf' = next_buf + Cardinality(u.created)
           /\ buffers' = buffers \cup u.created
           /\ gpu' = IF u.submitted THEN Append(gpu, UploadInfo(u.created)) ELSE gpu
           /\ units' = UnitsStarted(units, u)
           /\ IF fail = "none"
              THEN /\ status' = status
                   /\ trace' = trace
              ELSE /\ status' = "panicked"
                   /\ trace' = Append(trace, Failure("panicked", u.err))
    /\ UNCHANGED <<frame_idx, pc, fence, cmd, frame_dq, frame_da, pools>>

\* that create_buffer_with_mapped_memory from queue_wait_idle on: the staging
\* buffer is destroyed and the buffer returned to MeshBuffers::new.
DrawEguiUploaded ==
    /\ UNCHANGED <<dqVars, maVars, allocator, da_status, da_hist, sem, displays, slot_state, main_dq, mesh_buffers, loaded_nodes,
                 frame_res>>
    /\ At("egui_draw")
    /\ upload.active
    /\ queue_wait_idle(gpu)
    /\ buffers' = buffers \ {upload.staging}
    /\ units' = MarkDestroyed(units, upload.staging)
    /\ LET staging == AllocationUnit(upload.staging)
       IN freed' = destroy_buffer(freed, staging.unit, staging.allocation)
    /\ upload' = [active |-> FALSE, staging |-> 0, dest |-> 0,
                  made |-> Append(upload.made, upload.dest)]
    /\ UNCHANGED <<frame_idx, pc, status, fence, gpu, cmd, frame_dq, frame_da, pools,
                   next_buf, trace>>

\* egui_renderer.draw once every mesh has its MeshBuffers: self.mesh_buffers is
\* replaced, then the UI command buffer is reset and recorded over them.
DrawEgui ==
    /\ UNCHANGED <<dqVars, maVars, allocator, da_status, da_hist, sem, units, main_dq, loaded_nodes, freed,
                 frame_res>>
    /\ At("egui_draw")
    /\ ~upload.active
    /\ Len(upload.made) % 2 = 0
    /\ mesh_buffers' = upload.made
    /\ upload' = [upload EXCEPT !.made = <<>>]
    /\ cmd' = [cmd EXCEPT ![frame_idx].ui = "executable",
                          ![frame_idx].ui_bufs = Range(upload.made)]
    /\ Advance("egui_draw", Len(upload.made) \div 2)
    /\ UNCHANGED <<status, fence, gpu, frame_dq, frame_da, pools, buffers, next_buf>>

\* submit_queue: both command buffers, signalling the slot's fence on completion
DrawSubmit ==
    /\ UNCHANGED <<dqVars, maVars, allocator, da_status, da_hist, sem, units, main_dq, mesh_buffers, loaded_nodes, freed,
                 frame_res>>
    /\ At("submit_queue")
    /\ gpu' = Append(gpu, SubmitInfo(frame_idx, cmd[frame_idx]))
    /\ Advance("submit_queue", 0)
    /\ UNCHANGED <<status, fence, cmd, frame_dq, frame_da, pools, buffers, next_buf, upload>>

DrawPresent ==
    /\ UNCHANGED <<dqVars, maVars, allocator, da_status, da_hist, sem, units, main_dq, mesh_buffers, loaded_nodes, freed,
                 frame_res>>
    /\ At("present_queue")
    /\ gpu' = Append(gpu, PresentInfo(frame_idx))
    /\ Advance("present_queue", 0)
    /\ UNCHANGED <<status, fence, cmd, frame_dq, frame_da, pools, buffers,
                   next_buf, upload>>

\* descriptor_layout_builder.clear(); descriptor_allocator.reset_descriptors(device);
\* descriptor_writer.clear()
DrawResetDescriptors ==
    /\ UNCHANGED <<dqVars, maVars, allocator, da_status, da_hist, sem, units, main_dq, mesh_buffers, loaded_nodes, freed>>
    /\ At("reset_descriptors")
    /\ LET r == reset_descriptors(frame_da[frame_idx], pools)
       IN /\ frame_da' = [frame_da EXCEPT ![frame_idx] = r.allocator]
          /\ pools' = r.pools
    /\ frame_res' = [frame_res EXCEPT ![frame_idx] = clear(@)]
    /\ Advance("reset_descriptors", 0)
    /\ UNCHANGED <<status, fence, gpu, cmd, frame_dq, buffers, next_buf, upload>>

\* the calls of EguiRenderer::record_command_buffer whose error is returned with `?`
EguiRecordCalls == {"reset_command_buffer", "begin_command_buffer", "end_command_buffer"}

\* the UI command buffer after record_command_buffer failed at this call: untouched,
\* reset and not begun, or begun with the commands over `made` and never ended
EguiRecordFailed(c, made, call) ==
    CASE call = "reset_command_buffer" -> c
      [] call = "begin_command_buffer" -> [c EXCEPT !.ui = "initial", !.ui_bufs = {}]
      [] call = "end_command_buffer" -> [c EXCEPT !.ui = "recording", !.ui_bufs = Range(made)]

\* a step fails and draw returns the error: display leaves frame_idx as it is.  In
\* egui_renderer.draw the calls that return an error are those of
\* record_command_buffer, made after the mesh buffers were built and stored.
DrawReturnsErr ==
    /\ UNCHANGED <<dqVars, maVars, allocator, da_status, da_hist, sem, displays, slot_state,
                 units, main_dq, loaded_nodes, freed,
                 frame_res>>
    /\ status = "running"
    /\ pc > 0
    /\ DrawOrder[pc] \in ErrSteps
    /\ pc' = 0
    /\ \E err \in StepErrors(DrawOrder[pc]) : trace' = Append(trace, Failure("returned_err", err))
    /\ IF DrawOrder[pc] = "egui_draw"
       THEN /\ ~upload.active
            /\ Len(upload.made) % 2 = 0
            /\ mesh_buffers' = upload.made
            /\ upload' = [upload EXCEPT !.made = <<>>]
            /\ \E call \in EguiRecordCalls :
                 cmd' = [cmd EXCEPT ![frame_idx] = EguiRecordFailed(@, upload.made, call)]
       ELSE UNCHANGED <<mesh_buffers, upload, cmd>>
    /\ UNCHANGED <<frame_idx, status, fence, gpu, frame_dq, frame_da, pools,
                   buffers, next_buf>>

\* a step's call fails and its result is unwrapped, before the step has changed
\* anything; or the queue_wait_idle of an upload in progress fails.  At egui_draw
\* the call is the staging allocation of the next mesh buffer.
DrawPanics ==
    /\ UNCHANGED <<dqVars, maVars, allocator, da_status, da_hist, sem, displays, slot_state,
                 units, main_dq, mesh_buffers, loaded_nodes, freed,
                 frame_res>>
    /\ status = "running"
    /\ pc > 0
    /\ DrawOrder[pc] \in PanicSteps
    /\ (DrawOrder[pc] = "egui_draw" /\ ~upload.active) => Len(upload.made) < 2 * MaxMeshes
    /\ status' = "panicked"
    /\ \E err \in StepErrors(DrawOrder[pc]) : trace' = Append(trace, Failure("panicked", err))
    /\ UNCHANGED <<frame_idx, pc, fence, gpu, cmd, frame_dq, frame_da, pools,
                   buffers, next_buf, upload>>

\* The Renderer is dropped: the event loop has ended, or a panic unwinds.  No type
\* of the program implements Drop, so nothing is flushed, waited for or destroyed.
RendererDropped ==
    /\ UNCHANGED <<dqVars, maVars, allocator, da_status, da_hist, sem, displays, slot_state,
                 units, main_dq, mesh_buffers, loaded_nodes, freed,
                 frame_res>>
    /\ \/ status = "running" /\ pc = 0
       \/ status = "panicked"
    /\ status' = "dropped"
    /\ UNCHANGED <<frame_idx, pc, fence, gpu, cmd, frame_dq, frame_da, pools,
                   buffers, next_buf, upload, trace>>

\* the GPU completes the oldest submission; a frame's submission signals its fence
GpuComplete ==
    /\ UNCHANGED <<dqVars, maVars, allocator, da_status, da_hist, displays, slot_state,
                 units, main_dq, mesh_buffers, loaded_nodes, freed,
                 frame_res>>
    /\ gpu # <<>>
    /\ \A x \in Head(gpu).wait : sem[x]
    /\ gpu' = Tail(gpu)
    /\ sem' = [x \in Semaphores |->
                 IF x \in Head(gpu).signal THEN TRUE
                 ELSE IF x \in Head(gpu).wait THEN FALSE
                 ELSE sem[x]]
    /\ fence' = IF Head(gpu).fence \in Slots
                THEN [fence EXCEPT ![Head(gpu).fence] = TRUE]
                ELSE fence
    /\ UNCHANGED <<frame_idx, pc, status, cmd, frame_dq, frame_da, pools, buffers,
                   next_buf, upload, trace>>

FrameIdle ==
    /\ frame_idx = 0
    /\ pc = 0
    /\ status = "running"
    /\ fence = <<>>
    /\ gpu = <<>>
    /\ cmd = <<>>
    /\ frame_dq = <<>>
    /\ frame_da = <<>>
    /\ buffers = {}
    /\ next_buf = 1
    /\ upload = [active |-> FALSE, staging |-> 0, dest |-> 0, made |-> <<>>]
    /\ mesh_buffers = <<>>
    /\ loaded_nodes = {}
    /\ trace = <<>>
    /\ sem = <<>>
    /\ displays = 0
    /\ slot_state = <<>>
    /\ units = <<>>
    /\ main_dq = <<>>
    /\ freed = {}
    /\ frame_res = <<>>

DAUnused ==
    /\ allocator = [ready_pools |-> <<>>, full_pools |-> <<>>, sets_per_pool |-> 0]
    /\ da_status = "ok"
    /\ da_hist = [op |-> "none"]

Init == FrameInit /\ DQIdle /\ DAUnused /\ MAIdle

Next ==
    \/ Display
    \/ DrawUpdateScene
    \/ DrawWait
    \/ DrawResetFences
    \/ DrawAcquire
    \/ DrawResetCmd
    \/ DrawFlush
    \/ DrawGeomUpload
    \/ DrawGeomRecord
    \/ DrawEguiUpload
    \/ DrawEguiUploaded
    \/ DrawEgui
    \/ DrawSubmit
    \/ DrawPresent
    \/ DrawResetDescriptors
    \/ DrawReturnsErr
    \/ DrawPanics
    \/ RendererDropped
    \/ GpuComplete

Spec == Init /\ [][Next]_vars

InitDA == DAInit /\ DQIdle /\ FrameIdle /\ MAIdle

SpecDA == InitDA /\ [][DANext]_vars

DQNext == DQEnqueue \/ DQFlush

InitDQ == DQInit /\ DAIdle /\ FrameIdle /\ MAIdle

SpecDQ == InitDQ /\ [][DQNext]_vars

InitMA == MAIdle /\ DQIdle /\ DAIdle /\ FrameIdle

SpecMA == InitMA /\ [][MANext]_vars

\* -------------------------------------------------------------------------
\* FrameResources of one slot on its own (components/frame_data.rs): the slot's
\* DescriptorAllocator in `allocator`, its DeletionQueue in `queue`.
\* -------------------------------------------------------------------------

MaxSlotTasks == 2      \* tasks in the slot's DeletionQueue
MaxSlotFlushes == 2    \* flushes of the slot's DeletionQueue

\* DestroyDescriptorPools { allocator: self.descriptor_allocator.clone() }: the task
\* owns a copy of the allocator as it is now, with the same pool handles
DestroyDescriptorPoolsTask(a) ==
    [variant |-> "TASK", op |-> "DestroyDescriptorPools", allocator |-> a]

\* FrameResources::enqueue_destroy_pools
FREnqueueDestroyPools ==
    /\ da_status = "ok"
    /\ Len(queue) < MaxSlotTasks
    /\ queue' = enqueue([queue |-> queue, world |-> EmptyWorld],
                        DestroyDescriptorPoolsTask(allocator)).queue
    /\ UNCHANGED <<executed, enqueued, flushes, dq_last, daVars, frameVars>>

\* deletion_queue.flush(): the tasks run on their own copies of the allocator
FRFlush ==
    /\ da_status = "ok"
    /\ flushes < MaxSlotFlushes
    /\ LET r == flush([queue |-> queue,
                       world |-> [log |-> <<>>, buffers |-> {}, pools |-> pools]])
       IN /\ queue' = r.queue
          /\ pools' = r.world.pools
    /\ flushes' = flushes + 1
    /\ UNCHANGED <<executed, enqueued, dq_last, allocator, da_status, da_hist, frameVars>>

\* descriptor_allocator.borrow_mut().destroy_pools(device), called directly
FRDestroyPools ==
    /\ da_status = "ok"
    /\ da_hist.destroys < MaxDestroys
    /\ allocator' = destroy_pools(allocator)
    /\ pools' = DestroyPoolsOn(pools, allocator)
    /\ da_hist' = [Before("destroy_pools", "ok") EXCEPT
                      !.destroys = @ + 1, !.destroyed = Listed(allocator)]
    /\ UNCHANGED <<da_status, dqVars, frameVars>>

\* FrameData::new: the allocator with its first pool, and the queue holding
\* DestroyDescriptorPools over a copy of it
FRInit ==
    LET f == FrameData_new(<<>>)
    IN /\ allocator = f.descriptor_allocator
       /\ pools = f.pools
       /\ queue = f.deletion_queue
       /\ da_status = "ok"
       /\ da_hist = [op |-> "new", prev |-> "none", prev_result |-> "none",
                     result |-> "ok", ready |-> {}, full |-> {}, created |-> 0,
                     headroom |-> FALSE, resets |-> 0, tried |-> <<>>,
                     destroys |-> 0, destroyed |-> {}, by |-> "new", updated |-> {}]
       /\ executed = <<>>
       /\ enqueued = <<>>
       /\ flushes = 0
       /\ dq_last = [op |-> "none"]

FRNext ==
    \/ DAAllocate
    \/ DAReset
    \/ FRDestroyPools
    \/ FREnqueueDestroyPools
    \/ FRFlush

InitFR == FRInit /\ FrameIdle /\ MAIdle

SpecFR == InitFR /\ [][FRNext]_vars

\* =========================================================================
\* Claims
\* =========================================================================
Ids(s) == [i \in 1..Len(s) |-> s[i].id]

\* the current draw call has run `step` for slot i before position k of its trace
Ran(step, i, k) == \E j \in 1..(k - 1) : trace[j].ev = step /\ trace[j].slot = i

\* C1: after any number of draw iterations over the frame ring, every buffer that a
\* command buffer submitted for a slot references is alive as long as that
\* submission has not completed on the GPU: a buffer enqueued into a slot's
\* per-frame DeletionQueue is never destroyed under in-flight work.
C1_NoDestroyWhileInFlight ==
    \A k \in 1..Len(gpu) : gpu[k].slot \in Slots => gpu[k].bufs \subseteq buffers

\* slot 0's flush has destroyed the scene buffer of slot 0's previous draw while
\* slot 1's submission is still on the GPU
C1_Witness ==
    /\ trace # <<>>
    /\ Last(trace).ev = "flush"
    /\ Last(trace).slot = 0
    /\ next_buf > 2
    /\ 2 \notin buffers
    /\ \E k \in 1..Len(gpu) : gpu[k].slot = 1 /\ gpu[k].bufs # {}

\* C2: whenever a slot's per-frame DeletionQueue is drained, it is the queue of the
\* slot being drawn, the wait on that slot's fence has returned earlier in the same
\* draw call, the slot's submission of that draw call has not been made yet and no
\* earlier submission of the slot is still in flight; no other step drains a queue.
C2_FlushAfterWaitBeforeSubmit ==
    [][\A i \in Slots :
         (frame_dq[i] # <<>> /\ frame_dq'[i] = <<>>) =>
            /\ i = frame_idx
            /\ pc > 0
            /\ Ran("wait_for_fences", i, Len(trace) + 1)
            /\ ~Ran("submit_queue", i, Len(trace) + 1)
            /\ ~Pending(i)]_vars

\* slot 1's queue, holding the DestroyBufferTask of its previous draw, was flushed
C2_Witness ==
    /\ trace # <<>>
    /\ Last(trace).ev = "flush"
    /\ Last(trace).slot = 1
    /\ Last(trace).n > 0
    /\ frame_dq[1] = <<>>
    /\ next_buf > 4

\* C3: a slot's per-frame DescriptorAllocator is reset only at the reclaim point:
\* after the wait on the slot's fence returned in the draw call, before the draw
\* call submits the slot's commands, and with no submission of the slot in flight.
C3_ResetOnlyAtReclaimPoint ==
    \A k \in 1..Len(trace) :
        trace[k].ev = "reset_descriptors" =>
            /\ Ran("wait_for_fences", trace[k].slot, k)
            /\ ~Ran("submit_queue", trace[k].slot, k)
            /\ ~trace[k].pending

\* C4: a slot's primary and UI command buffers are reset and recorded only after
\* the wait on the slot's fence returned in the same draw call, and never while a
\* submission of the slot is still on the GPU.
C4_RecordAfterFenceWait ==
    \A k \in 1..Len(trace) :
        trace[k].ev \in {"reset_command_buffer", "record_command_buffer", "egui_draw"} =>
            /\ Ran("wait_for_fences", trace[k].slot, k)
            /\ ~trace[k].pending

\* slot 0 is reused: its command buffers, submitted by an earlier draw, have been
\* reset and recorded again
C4_Witness ==
    /\ trace # <<>>
    /\ Last(trace).ev = "egui_draw"
    /\ Last(trace).slot = 0
    /\ cmd[0].ui = "executable"
    /\ cmd[0].bufs # {}
    /\ next_buf > 5

\* C5: for any sequence of enqueued tasks (any mix of DEVICE, MALLOC and TASK),
\* flush runs them in the order they were enqueued: the executions so far followed
\* by what is still queued is exactly the enqueue order, each variant is handed the
\* handles of its kind, after a flush the queue is empty and the flush ran all that
\* was pending, so a flush that follows a flush runs nothing.
C5_FifoFlush ==
    /\ Ids(executed) \o Ids(queue) = Ids(enqueued)
    /\ \A i \in 1..Len(executed) :
         /\ executed[i].variant = enqueued[i].variant
         /\ executed[i].given = HandlesFor(enqueued[i].variant)
    /\ dq_last.op = "flush" => (queue = <<>> /\ dq_last.ran = dq_last.pending)

C5_Witness ==
    /\ dq_last.op = "flush"
    /\ dq_last.ran = 3
    /\ {executed[i].variant : i \in 1..Len(executed)} = FType

\* C6: over any interleaving of enqueue and flush, every task is executed at most
\* once, by the first flush that follows its enqueue (never by a later one, never
\* by enqueue itself), and no task enqueued before a completed flush is left unrun.
C6_ExactlyOnceDeferred ==
    /\ \A i, j \in 1..Len(executed) : executed[i].id = executed[j].id => i = j
    /\ \A i \in 1..Len(executed) :
         \E k \in 1..Len(enqueued) :
            /\ enqueued[k].id = executed[i].id
            /\ executed[i].flush = enqueued[k].flushes + 1
    /\ \A k \in 1..Len(enqueued) :
         enqueued[k].flushes < flushes => \E i \in 1..Len(executed) : executed[i].id = enqueued[k].id
    /\ dq_last.op = "enqueue" => dq_last.ran = 0

C6_Witness ==
    /\ flushes >= 2
    /\ Len(executed) >= 2
    /\ executed[1].flush = 1
    /\ executed[Len(executed)].flush = 2
    /\ dq_last.op = "enqueue"
    /\ queue # <<>>

\* C7: in every state of a DescriptorAllocator reached by new, allocate and
\* reset_descriptors, no pool handle is in both ready_pools and full_pools.
C7_ReadyFullDisjoint ==
    Range(allocator.ready_pools) \cap Range(allocator.full_pools) = {}

C7_Witness ==
    /\ da_hist.op = "allocate"
    /\ da_hist.resets >= 1
    /\ da_hist.full # {}
    /\ Len(allocator.full_pools) = 1

\* C8: between operations the union of ready_pools and full_pools is the set of
\* all pools the allocator has ever created.
C8_UnionIsEveryPoolCreated ==
    da_status = "ok" => Listed(allocator) = 1..Len(pools)

\* C9: after reset_descriptors full_pools is empty and ready_pools holds every pool
\* that was in ready_pools or full_pools before the call.
C9_ResetMergesFullIntoReady ==
    da_hist.op = "reset_descriptors" =>
        /\ allocator.full_pools = <<>>
        /\ Range(allocator.ready_pools) = da_hist.ready \cup da_hist.full

\* C10: a pool is created only in response to exhaustion: an allocate whose first
\* attempt succeeds, made right after reset_descriptors or right after a successful
\* allocate that left room in a pool, creates no pool.
C10_NewPoolOnlyOnExhaustion ==
    ( /\ da_hist.op = "allocate"
      /\ da_hist.result = "ok"
      /\ \/ da_hist.prev = "reset_descriptors"
         \/ da_hist.prev = "allocate" /\ da_hist.prev_result = "ok" /\ da_hist.headroom )
    => Len(pools) = da_hist.created

\* a pool-exhaustion answer of vkAllocateDescriptorSets
Exhausted(o) == o \in {"oopm", "frag"}

\* C11: when the first attempt of allocate fails with out-of-pool-memory or
\* fragmented-pool, the pool is put in full_pools and the allocation is retried
\* exactly once on a pool from get_pool; a failing second attempt ends the call in a
\* fatal failure; one call makes at most two attempts and creates at most one pool.
C11_RetryOnceAtMostOneNewPool ==
    (da_hist.op = "allocate" /\ da_hist.result # NoPool) =>
        /\ Len(da_hist.tried) \in {1, 2}
        /\ Len(da_hist.tried) = 2 <=> Exhausted(da_hist.tried[1].o)
        /\ Exhausted(da_hist.tried[1].o) =>
              /\ Contains(allocator.full_pools, da_hist.tried[1].pool)
              /\ da_hist.tried[2].o # "ok" <=> da_status = "panicked"
        /\ Len(pools) - da_hist.created <= 1

\* C12: a pool enters full_pools only in an allocate call whose attempt on that pool
\* failed with out-of-pool-memory or fragmented-pool; an allocate whose attempt
\* succeeded on a pool does not add that pool.
C12_FullOnlyOnExhaustion ==
    da_hist.op \in {"allocate", "reset_descriptors"} =>
        \A p \in Range(allocator.full_pools) \ da_hist.full :
            /\ da_hist.op = "allocate"
            /\ \E k \in 1..Len(da_hist.tried) :
                  da_hist.tried[k].pool = p /\ Exhausted(da_hist.tried[k].o)

\* an allocate that was retried and served from the second pool: the first pool is
\* in full_pools, the second is not
C12_Witness ==
    /\ da_hist.op = "allocate"
    /\ da_hist.result = "retried"
    /\ Range(allocator.full_pools) = da_hist.full \cup {da_hist.tried[1].pool}
    /\ da_hist.tried[1].pool \notin da_hist.full

\* C13: pool capacities grow by 1.5x per pool created: for max_sets = 10 the initial
\* pool has capacity 10, the next pool created 15, and the one after that 22.
C13_GeometricGrowth ==
    (pools # <<>> /\ pools[1].cap = 10) =>
        /\ Len(pools) >= 2 => pools[2].cap = 15
        /\ Len(pools) >= 3 => pools[3].cap = 22

\* C14: for max_sets = 1 the first two allocate calls are each made on a pool with a
\* free set, so both succeed unless the device fails for another reason, and the
\* number of pools created is 1 after the first and 2 after the second.
C14_SecondAllocationGrows ==
    (pools[1].cap = 1 /\ da_hist.op = "allocate" /\ da_hist.prev \in {"new", "allocate"}
        /\ da_hist.prev_result = "ok" /\ da_hist.created = 1
        /\ da_hist.result # NoPool) =>
        LET nth == IF da_hist.prev = "new" THEN 1 ELSE 2
        IN /\ da_hist.tried[1].pool = nth
           /\ da_hist.tried[1].headroom
           /\ da_hist.tried[1].o = "ok" => (da_status = "ok" /\ Len(pools) = nth)

\* the second allocation has succeeded from the second pool
C14_Witness ==
    /\ pools[1].cap = 1
    /\ da_hist.op = "allocate"
    /\ da_hist.prev = "allocate"
    /\ da_hist.prev_result = "ok"
    /\ da_hist.result = "ok"
    /\ da_hist.created = 1
    /\ Len(pools) = 2
    /\ pools[1].used = 1
    /\ pools[2].used = 1

\* C15: frame_idx always is a slot of the ring, and it is k mod MAX_FRAMES after k
\* display calls that returned Ok; every step of a draw call works on that slot, so
\* successful calls use the slots in the order 0, 1, 0, 1, ...
C15_SlotsCycleInOrder ==
    /\ frame_idx \in Slots
    /\ frame_idx = displays % MAX_FRAMES
    /\ pc > 0 => \A k \in 1..Len(trace) : trace[k].slot = displays % MAX_FRAMES

\* the fourth draw call, after three successful ones, is recording on slot 1
C15_Witness ==
    /\ displays = 3
    /\ frame_idx = 1
    /\ pc > 0
    /\ trace # <<>>
    /\ Last(trace).ev = "record_command_buffer"

\* C16: the submission for slot i waits on slot i's swapchain semaphore, signals
\* slot i's render semaphore and slot i's fence, and the present request of the
\* same draw call waits on slot i's render semaphore.
C16_OwnSemaphoresAndFence ==
    /\ \A k \in 1..Len(gpu) :
          gpu[k].slot \in Slots =>
             /\ gpu[k].wait = {swapchain_semaphore(gpu[k].slot)}
             /\ gpu[k].signal = {render_semaphore(gpu[k].slot)}
             /\ gpu[k].fence = gpu[k].slot
    /\ (trace # <<>> /\ Last(trace).ev = "present_queue" /\ gpu # <<>>
          /\ Last(gpu).slot = PRESENT) =>
             Last(gpu).wait = {render_semaphore(Last(trace).slot)}

\* slot 1's submission and its present request are both on the queue
C16_Witness ==
    /\ trace # <<>>
    /\ Last(trace).ev = "present_queue"
    /\ Last(trace).slot = 1
    /\ Len(gpu) >= 2
    /\ gpu[Len(gpu) - 1].slot = 1
    /\ Last(gpu).slot = PRESENT

\* C17: a frame slot changes state only along Idle -> Acquiring -> Recording ->
\* Submitted -> Idle, where Idle is entered by the wait on the slot's fence; so a
\* Submitted slot is not acquired or recorded before that wait, and the present
\* request is made for a slot that is Submitted.
C17_SlotStateOrder ==
    [][/\ \A i \in Slots :
             slot_state'[i] # slot_state[i] =>
                <<slot_state[i], slot_state'[i]>> \in
                    {<<"Idle", "Acquiring">>, <<"Acquiring", "Recording">>,
                     <<"Recording", "Submitted">>, <<"Submitted", "Idle">>}
       /\ (pc > 0 /\ DrawOrder[pc] = "present_queue" /\ pc' # pc /\ status' = "running") =>
             slot_state[frame_idx] = "Submitted"]_vars

\* slot 0 is Submitted for the second time while slot 1 is being recorded again
C17_Witness ==
    /\ displays = 3
    /\ slot_state[0] = "Submitted"
    /\ slot_state[1] = "Recording"

\* the submissions of two different slots are on the GPU at the same time
Overlap ==
    \E j, k \in 1..Len(gpu) :
        gpu[j].slot \in Slots /\ gpu[k].slot \in Slots /\ gpu[j].slot # gpu[k].slot

\* C18: the frame loop pipelines CPU and GPU: while the submission of slot i is
\* still on the GPU, the draw call for the next slot can go on to record and
\* submit its own work without waiting for it, so the two can overlap.
C18_NextSlotDoesNotWaitForGpu ==
    \A i \in Slots :
        (At("record_command_buffer") /\ frame_idx # i /\ Pending(i) /\ upload.active) =>
            ENABLED DrawGeomRecord

\* what the code does instead: no two slots' submissions are ever in flight together
C18_NeverOverlap == ~Overlap

\* the unit is being created by the create_buffer_with_mapped_memory call that
\* draw_geom has not yet returned from
InProgress(u) == upload.active /\ u.handle # 0 /\ u.handle \in {upload.staging, upload.dest}

\* C19: every AllocationUnit the MemoryAllocator created has exactly one
\* destruction: one synchronous destroy call or one DeletionTask enqueued.
C19_EveryUnitDestroyedOnce ==
    \A k \in DOMAIN units : ~InProgress(units[k]) => units[k].sync + units[k].tasks = 1

\* C20: every staging buffer allocated by a create-with-data call has been
\* destroyed synchronously when that call has returned.
C20_StagingDestroyedBeforeReturn ==
    \A k \in DOMAIN units :
        (units[k].kind = "staging" /\ ~InProgress(units[k])) => units[k].sync = 1

\* C23: the descriptor pools of a slot's DescriptorAllocator stay alive for the
\* whole frame loop: no pool that the slot's allocator holds in ready_pools or
\* full_pools has been destroyed.
C23_SlotPoolsStayAlive ==
    \A i \in Slots : \A p \in Listed(frame_da[i]) : pools[p].alive

\* C24: the main DeletionQueue is not flushed while the frame loop runs, and once
\* the Renderer is torn down it has been flushed exactly once, with every task run
\* and no frame submission left on the GPU.
C24_MainQueueFlushedOnceAtTeardown ==
    /\ status \in {"running", "panicked"} => main_dq.flushes = 0
    /\ status = "dropped" =>
          /\ main_dq.flushes = 1
          /\ main_dq.queue = <<>>
          /\ \A i \in Slots : ~Pending(i)

\* C25: an image acquisition that reports the swapchain out of date is recoverable:
\* it never ends the draw call in a panic.
C25_OutOfDateIsRecoverable ==
    \A k \in 1..Len(trace) :
        ~ /\ trace[k].ev = "panicked"
          /\ DrawOrder[trace[k].n] = "acquire_next_image"
          /\ trace[k].err = "ERROR_OUT_OF_DATE_KHR"

\* the position of present_queue in draw
PresentAt == CHOOSE k \in DOMAIN DrawOrder : DrawOrder[k] = "present_queue"

\* C26: when draw has failed at a step before present, the error was returned by
\* display, frame_idx is still the slot of the failed draw, and no present request
\* was issued in that draw call.
C26_FailureReturnsErrSameSlot ==
    (trace # <<>> /\ Last(trace).ev \in {"returned_err", "panicked"}
        /\ Last(trace).n < PresentAt) =>
        /\ Last(trace).ev = "returned_err"
        /\ pc = 0
        /\ frame_idx = Last(trace).slot
        /\ \A k \in 1..Len(trace) : trace[k].ev # "present_queue"

\* C28: whenever draw is at its fence wait, the slot's fence is signaled or a
\* submission that will signal it is pending on the GPU, so the wait returns.
C28_FenceWaitCanReturn ==
    At("wait_for_fences") => (fence[frame_idx] \/ Pending(frame_idx))

\* C29: while an upload's one-shot submission is on the GPU its staging and
\* destination buffers are alive, and once the upload call has returned no upload
\* submission is left on the GPU.
C29_StagedUploadSynchronous ==
    /\ \A k \in 1..Len(gpu) : gpu[k].slot = UPLOAD => gpu[k].bufs \subseteq buffers
    /\ ~upload.active => \A k \in 1..Len(gpu) : gpu[k].slot # UPLOAD

\* draw_geom's upload has returned: its staging buffer was destroyed after the copy
C29_Witness ==
    /\ ~upload.active
    /\ trace # <<>>
    /\ Last(trace).ev = "record_command_buffer"
    /\ \E k \in DOMAIN units :
          /\ units[k].kind = "staging"
          /\ units[k].handle > 0
          /\ units[k].sync = 1
          /\ units[k].handle \notin buffers

\* C30: every destroy call made, and every DestroyBufferTask / DestroyImageTask
\* queued, carries the allocation the MemoryAllocator returned together with the
\* same native handle.
C30_AllocationPairedWithHandle ==
    /\ \A r \in freed : r.allocation = AllocationUnit(r.handle).allocation
    /\ \A i \in Slots : \A k \in DOMAIN frame_dq[i] :
          frame_dq[i][k].op = "DestroyBufferTask" =>
              frame_dq[i][k].allocation = AllocationUnit(frame_dq[i][k].handle).allocation
    /\ \A k \in DOMAIN main_dq.queue :
          main_dq.queue[k].op = "DestroyImageTask" =>
              main_dq.queue[k].allocation = AllocationUnit(main_dq.queue[k].handle).allocation

\* a staging buffer was destroyed by draw_geom's upload, a scene buffer by a flushed
\* DestroyBufferTask, and another scene buffer's task is queued
C30_Witness ==
    /\ \E r \in freed : r.handle = 1
    /\ \E r \in freed : r.handle = 2
    /\ \E i \in Slots : \E k \in DOMAIN frame_dq[i] : frame_dq[i][k].op = "DestroyBufferTask"

\* transition to transfer-destination, copy, transition to shader-read
UploadOrder ==
    <<[cmd |-> "transition", old |-> "UNDEFINED", new |-> "TRANSFER_DST_OPTIMAL"],
      [cmd |-> "copy", old |-> "TRANSFER_DST_OPTIMAL", new |-> "TRANSFER_DST_OPTIMAL"],
      [cmd |-> "transition", old |-> "TRANSFER_DST_OPTIMAL",
       new |-> "SHADER_READ_ONLY_OPTIMAL"]>>

\* C21: when create_image_with_data has returned, the GPU has executed exactly the
\* transition to transfer-destination, then the copy, then the transition to
\* shader-read, every command found the image in the layout it names, and nothing
\* is left pending on the queue.
C21_TransitionCopyTransition ==
    (ma_last.op = "create_image_with_data" /\ ma_last.outcome = "Ok") =>
        /\ ma_last.executed = UploadOrder
        /\ ma_last.valid
        /\ ma_last.pending = <<>>

\* C22: when a create-with-data call has returned Ok, the staging buffer had the
\* size of the payload, the whole payload was written into it, the copy moved
\* that many bytes, and the destination holds exactly the payload.
C22_DestinationHoldsPayload ==
    (ma_last.op \in {"create_image_with_data", "create_egui_texture_image",
                     "create_buffer_with_mapped_memory"} /\ ma_last.outcome = "Ok") =>
        /\ ma_last.staging_size = WordBytes * Len(ma_last.payload)
        /\ ma_last.written = ma_last.staging_size
        /\ ma_last.copied = ma_last.staging_size
        /\ ma_last.dest = ma_last.payload

\* C27: when the device fails to allocate, allocate_single_buffer and create_image
\* return an error result, after a single attempt.
C27_AllocationFailureReturnsErr ==
    (ma_last.op \in {"allocate_single_buffer", "create_image"}
        /\ ma_last.device # "SUCCESS") =>
        /\ ma_last.outcome = "Err"
        /\ ma_last.attempts = 1

\* C34: every descriptor pool the slot's allocator created is passed to
\* destroy_descriptor_pool at most once, over any sequence of FrameData::new,
\* enqueue_destroy_pools and flush of the slot's DeletionQueue.
C34_PoolDestroyedAtMostOnce ==
    da_hist.destroys = 0 => \A p \in DOMAIN pools : pools[p].destroyed <= 1

\* C35: after destroy_pools on an allocator that went through allocate and
\* reset_descriptors calls only, every pool ever created is destroyed and both
\* lists are empty; a destroy_pools that follows a destroy_pools destroys nothing.
C35_DestroyPoolsDestroysAll ==
    (da_hist.op = "destroy_pools" /\ flushes = 0) =>
        /\ \A p \in DOMAIN pools : ~pools[p].alive
        /\ allocator.ready_pools = <<>>
        /\ allocator.full_pools = <<>>
        /\ da_hist.prev = "destroy_pools" => da_hist.destroyed = {}

\* C37: for every extent of 32-bit fields, the staging size computed by
\* create_image_with_data is width * height * depth * 4: the computation neither
\* panics on overflow nor wraps before it is widened to 64 bits.
C37_DataSizeDoesNotWrap ==
    ma_last.op = "data_size" =>
        /\ ma_last.outcome = "Ok"
        /\ ma_last.size = ma_last.exact

\* C31: every descriptor set bound in a slot's command buffer has been written by
\* update_set when the command buffer is submitted, and update_set is not called
\* on a set that a submission still on the GPU has bound.
C31_SetWrittenBeforeSubmit ==
    /\ [](/\ At("submit_queue") =>
                cmd[frame_idx].sets \subseteq frame_res[frame_idx].updated
          /\ \A k \in 1..Len(gpu) :
                gpu[k].slot \in Slots => gpu[k].sets \subseteq frame_res[gpu[k].slot].updated)
    /\ [][\A i \in Slots : \A k \in 1..Len(gpu) :
            (frame_res'[i].updated \ frame_res[i].updated) \cap gpu[k].sets = {}]_vars

\* a slot's submission with its descriptor set is on the GPU, for the second time
\* round the ring
C31_Witness ==
    /\ displays >= MAX_FRAMES
    /\ \E k \in 1..Len(gpu) : gpu[k].slot \in Slots /\ gpu[k].sets # {}

\* C32: when the fence wait at the top of draw has failed or timed out, draw has
\* returned the error having done nothing else: no fence reset, no flush, no
\* image acquired, nothing submitted or presented, and frame_idx is unchanged.
C32_FenceWaitFailureDoesNothing ==
    (trace # <<>> /\ Last(trace).ev = "returned_err"
        /\ DrawOrder[Last(trace).n] = "wait_for_fences") =>
        /\ pc = 0
        /\ status # "panicked"
        /\ frame_idx = Last(trace).slot
        /\ \A k \in 1..(Len(trace) - 1) : trace[k].ev = "update_scene"

\* a fence wait has timed out in a draw call made after complete frames
C32_Witness ==
    /\ trace # <<>>
    /\ Last(trace).ev = "returned_err"
    /\ Last(trace).err = "TIMEOUT"
    /\ DrawOrder[Last(trace).n] = "wait_for_fences"
    /\ displays > 0

\* C33: when display has returned, every signal an acquire put on a slot's
\* image-acquired semaphore has its submit wait: a signaled swapchain_semaphore is
\* waited for by a submission on the GPU.
C33_AcquireSignalHasSubmitWait ==
    (status = "running" /\ pc = 0) =>
        \A i \in Slots :
            sem[swapchain_semaphore(i)] =>
                \E k \in 1..Len(gpu) : swapchain_semaphore(i) \in gpu[k].wait

\* C36: at the start of every draw call the slot's layout builder holds no
\* bindings and its writer no pending writes, and every scene-data layout built
\* has exactly one binding.
C36_BuilderAndWriterEmptyAtStart ==
    /\ (status = "running" /\ pc = 1) =>
          /\ frame_res[frame_idx].bindings = 0
          /\ frame_res[frame_idx].pending_writes = 0
    /\ \A i \in Slots : frame_res[i].layout <= 1

====
